---- MODULE Spec2Model ----
(***************************************************************************)
(* Model of the MMC block driver's request engine, mmc_blk_issue_rq        *)
(* (drivers/mmc/card/block.c): plan building, command execution, the       *)
(* write status poll, the recovery ladder (reinit / remove / fatal), the   *)
(* completion calls and the host claim.                                    *)
(*                                                                         *)
(* Collaborators whose code is outside the driver are modelled by their    *)
(* interface:                                                              *)
(*   - mmc_wait_for_req / mmc_wait_for_cmd: the outcome (error flags,      *)
(*     bytes_xfered, status word) is an input of the action;               *)
(*   - mmc_reinit_card: succeeds or fails;                                 *)
(*   - mmc_claim_host / mmc_release_host: a claim owned by one context,    *)
(*     nestable by its owner (claimer, claim_cnt), blocking for others;    *)
(*   - __blk_end_request(req, error, nr_bytes): completes                  *)
(*     min(nr_bytes, bytes left) bytes at the request's current position   *)
(*     and returns whether bytes are left.                                 *)
(* Byte counts are multiples of the 512-byte sector.                       *)
(***************************************************************************)
EXTENDS Integers, Sequences, FiniteSets, TLC

(* ---- bounds of the model ---- *)
MaxSectors == 3        \* requests have 1..MaxSectors sectors
MaxPolls == 1          \* status polls modelled one by one below/above the poll threshold
MaxSgSectors == 4      \* sectors of the requests whose scatter list is followed
MaxDelayPolls == 4200  \* status polls of the runs whose inter-poll delay is followed
ScenBSectors == 32     \* sectors of the read request of scenario B
ScenBBad == 15         \* offset in that request of the sector that fails
ScenCSectors == 8      \* sectors of the write request of scenario C
NumHandles == 2        \* genlock handles
MaxActive == 2         \* recursion depth of a genlock handle the model follows
MaxTicks == 1          \* longest genlock timeout, in jiffies
MsPerJiffy == 10       \* milliseconds per jiffy (1000 / HZ)
PcomTimeout == 2       \* polls of one proc_comm wait before its time-out (TIMEOUT, scaled)
PcomData == 1          \* data words of proc_comm are 0 .. PcomData
IterCap == 2 * (MaxSectors + ScenBSectors) + 3   \* executions of one request the model follows

(* ---- program constants ---- *)
SectorSize == 512      \* brq.data.blksz
PollMinCount == 1024   \* fls(i) > 10  <=>  i >= 1024
SleepFlsMin == 11      \* fls(i) > 11: the poll sleeps from poll 2048 on
SleepShift == 2048     \* i >> 11
SleepFrom == 2048      \* the first poll count with fls(i) > 11
DeadlineMs == 1000     \* delay = jiffies + HZ: one second
StateTran == 4         \* R1_CURRENT_STATE == 4 (tran)
StatePrg == 7          \* R1_CURRENT_STATE == 7 (prg)
StateData == 5         \* some other card state
StartSector == 100     \* blk_rq_pos of the requests of the model
ShiftWrap == 8388608   \* 2^23: x << 9 in a 32-bit word keeps x mod 2^23
EIO == -5
ETIMEDOUT == -110
WrBlocksFailed == -1   \* (u32)-1, the failure value of mmc_sd_num_wr_blocks

EINVAL == -22
ENOSPC == -28
ENOMEM == -12
EROFS == -30
ENXIO == -6
MMC_SHIFT == 3         \* block.c line 54
NumMinors == 2         \* MMC_NUM_MINORS of the model (256 >> MMC_SHIFT in block.c)
MaxOpens == 2          \* opens of one disk that are followed
EAGAIN == -11
ERESTARTSYS == -512    \* wait_event_interruptible_timeout interrupted by a signal
PCOM_CMD_IDLE == 0     \* proc_comm.h: the values of APP_COMMAND
PCOM_CMD_DONE == 1
PCOM_INVALID_STATUS == 0   \* proc_comm.h: the values of APP_STATUS and MDM_STATUS
PCOM_READY == 1
PCOM_CMD_SUCCESS == 3
PCOM_CMD_FAIL == 4
PcomCmd == 5           \* the command word passed by the callers of the model
DpLevelMax == 3         \* voltage and pre-emphasis requests are 2-bit fields
DP_TRAIN_VOLTAGE_SWING_800 == 2
DP_TRAIN_PRE_EMPHASIS_6 == 2     \* pre-emphasis levels, before DP_TRAIN_PRE_EMPHASIS_SHIFT
DP_TRAIN_PRE_EMPHASIS_3_5 == 1
DP_TRAIN_PRE_EMPHASIS_0 == 0
VoltageNone == 255      \* voltage = 0xff before the first pass
SameVoltageTries == 5   \* tries == 5 of the clock recovery
ChannelEqTries == 5     \* tries > 5 of the channel equalization
READ == "READ"
WRITE == "WRITE"

VARIABLES
    \* the request (struct request)
    rq_dir, rq_pos, rq_bytes, rq_pos0, rq_bytes0,
    \* the card and the host
    card_sd, card_blockaddr, card_removed, card_present, host_spi, max_blk_count,
    removal_work,
    \* the host claim
    claimer, claim_cnt,
    \* another context using the same host
    other_pc,
    \* locals of mmc_blk_issue_rq
    pc, ret, disable_multi, card_no_ready, err, try_recovery, do_reinit, do_remove,
    brq, poll_i, expired, retval,
    \* the scatter list of the plan: mq->sg, brq.data.sg_len, and the locals
    \* i and data_size of the adjustment
    sg, sg_len, sg_i, data_size,
    \* the status poll's local msec, the argument of its last msleep (0 when
    \* the pass did not sleep) and the milliseconds slept since the poll began
    msec, slept, elapsed,
    \* history
    log, xlog, reinits, nclaims, nreleases, reclaims, bad_cmd, fatal_from,
    no_ready_seen,
    \* md->lock and the call site that holds it; the host's bus-resume flags;
    \* the locals retries and j of the deferred resume; whether the card has
    \* lost its block-length setting in a bus resume
    \* (and blocks, the local of the cmd_err label)
    md_lock, site, bus_needs_resume, bus_manual_resume, bus_fails_resume,
    retries, rs_j, blksz_due, wr_blocks,
    \* genlock: lock->state, lock->active (the handles holding the lock, in
    \* list order); per handle: handle->lock != NULL, handle->active, where
    \* its caller is, the op and ticks of the call in progress (ticks holds
    \* elapsed between a wait and the test of line 292 or 387);
    \* the last call that returned
    gl_state, gl_active, h_attached, h_active, h_pc, h_op, h_ticks,
    gl_last,
    \* proc_comm, one record: pc (where msm_proc_comm is), lock
    \* (proc_comm_lock), shm (the words of the shared memory), arg (cmd,
    \* whether data1 and data2 are non-null, the words they point to on entry,
    \* whether msm_check_for_modem_crash and msm_hw_reset_hook are installed,
    \* CONFIG_PROC_COMM_TIMEOUT_RESET), data (*data1 and *data2), ret, timeout
    \* (the local of proc_comm_wait_for), modem (a crash not yet reported, a
    \* notification not yet served) and hist (the words the shared memory
    \* held at the last notification, the last word this processor wrote to
    \* APP_COMMAND, whether a crash report has restarted the call)
    pcm,
    \* intel_dp_link_train, one record: pc (where it is), train_set (its four
    \* bytes are equal: voltage swing, DP_TRAIN_MAX_SWING_REACHED,
    \* pre-emphasis, DP_TRAIN_MAX_PRE_EMPHASIS_REACHED), the locals voltage,
    \* tries, first, clock_recovery and channel_eq, output_reg (the
    \* link-training field of the port register), sink_pattern (the training
    \* pattern set at the sink) and hist (the voltage swing and length of the
    \* present run of training pattern 1 writes with one voltage swing, the
    \* number of training pattern 2 writes)
    dp,
    \* the block driver's slots, one record: dev_use (the bitmap, as the set
    \* of its set bits), md (per slot the mmc_blk_data whose disk has that
    \* slot: whether it is allocated, usage, read_only, first_minor of its
    \* disk, whether the card is still bound to it, the opens of its disk not
    \* yet released) and last (the last call that returned)
    blk

vars == << rq_dir, rq_pos, rq_bytes, rq_pos0, rq_bytes0,
           card_sd, card_blockaddr, card_removed, card_present, host_spi, max_blk_count,
           removal_work, claimer, claim_cnt, other_pc,
           pc, ret, disable_multi, card_no_ready, err, try_recovery, do_reinit, do_remove,
           brq, poll_i, expired, retval,
           sg, sg_len, sg_i, data_size, msec, slept, elapsed,
           log, xlog, reinits, nclaims, nreleases, reclaims, bad_cmd, fatal_from,
           no_ready_seen,
           md_lock, site, bus_needs_resume, bus_manual_resume, bus_fails_resume,
           retries, rs_j, blksz_due, wr_blocks,
           gl_state, gl_active, h_attached, h_active, h_pc, h_op, h_ticks,
           gl_last, pcm, dp, blk >>

rqVars == << rq_dir, rq_pos, rq_bytes, rq_pos0, rq_bytes0 >>
cfgVars == << card_sd, card_blockaddr, card_present, host_spi, max_blk_count >>
claimVars == << claimer, claim_cnt, nclaims, nreleases, reclaims >>
sgVars == << sg, sg_len, sg_i, data_size >>
dlVars == << msec, slept, elapsed >>
isVars == << md_lock, site, bus_needs_resume, bus_manual_resume, bus_fails_resume,
            retries, rs_j, blksz_due, wr_blocks >>
glVars == << gl_state, gl_active, h_attached, h_active, h_pc, h_op, h_ticks,
            gl_last >>
(* the variables of the other subsystems *)
ext2Vars == << glVars, pcm, dp, blk >>
(* the variables that the request engine leaves alone *)
extVars == << isVars, ext2Vars >>

Min(a, b) == IF a < b THEN a ELSE b

(* ---- the request ---- *)
blk_rq_sectors == rq_bytes \div SectorSize

(* ---- the transfer plan, lines 386-425 ---- *)
Shl9(x) == (x % ShiftWrap) * SectorSize

(* variant: the byte address of a byte-addressed card is not computed *)
PlanArgNoShift(pos, blockaddr) == pos

PlanArg(pos, blockaddr) ==
    IF blockaddr THEN pos ELSE Shl9(pos)

PlanSector(arg, blockaddr) ==
    IF blockaddr THEN arg ELSE arg \div SectorSize

(* variant: single-block mode is ignored when the plan is sized *)
PlanBlocksNoDegrade(nsect, maxblk, dm) ==
    IF nsect > maxblk THEN maxblk ELSE nsect

PlanBlocks(nsect, maxblk, dm) ==
    LET capped == IF nsect > maxblk THEN maxblk ELSE nsect
    IN  IF dm = 1 /\ capped > 1 THEN 1 ELSE capped

(* variant: every multi-block plan gets a stop command *)
PlanStopAlways(blocks, spi, dir) == blocks > 1

PlanStop(blocks, spi, dir) ==
    blocks > 1 /\ (~spi \/ dir = READ)

PlanOpcode(blocks, dir) ==
    IF blocks > 1
    THEN (IF dir = READ THEN "READ_MULTIPLE_BLOCK" ELSE "WRITE_MULTIPLE_BLOCK")
    ELSE (IF dir = READ THEN "READ_SINGLE_BLOCK" ELSE "WRITE_BLOCK")

(* Outcomes of mmc_wait_for_req for a plan of `blocks` blocks: no error and *)
(* all bytes transferred; a command error and nothing transferred; a data   *)
(* error after 0..blocks-1 good blocks (with or without a stop error); a    *)
(* stop error alone.  A stop error needs a stop command.                    *)
Outcomes(blocks, stop) ==
    { [cmd_error |-> FALSE, data_error |-> FALSE, stop_error |-> FALSE,
       bytes_xfered |-> blocks * SectorSize] }
    \cup
    { [cmd_error |-> TRUE, data_error |-> FALSE, stop_error |-> FALSE,
       bytes_xfered |-> 0] }
    \cup
    { [cmd_error |-> FALSE, data_error |-> TRUE, stop_error |-> s,
       bytes_xfered |-> n * SectorSize] :
         n \in 0 .. (blocks - 1), s \in (IF stop THEN BOOLEAN ELSE {FALSE}) }
    \cup
    (IF stop
     THEN { [cmd_error |-> FALSE, data_error |-> FALSE, stop_error |-> TRUE,
             bytes_xfered |-> blocks * SectorSize] }
     ELSE {})

AnyError(b) == b.cmd_error \/ b.data_error \/ b.stop_error

NoBrq == [arg |-> 0, blocks |-> 0, opcode |-> "none", stop |-> FALSE,
          cmd_error |-> FALSE, data_error |-> FALSE, stop_error |-> FALSE,
          bytes_xfered |-> 0]

(* ---- the recovery ladder, lines 661-664 (and 595-598 in the poll) ---- *)
(* variant: the first two rungs both schedule a reinit *)
SchedReinitTwice(tr) == tr <= 2

(* variant: the first rung schedules nothing *)
SchedReinitNever(tr) == FALSE

SchedReinit(tr) == tr = 1

(* variant: the second rung schedules removal for every card type *)
SchedRemoveAny(tr, sd) == tr = 2

SchedRemove(tr, sd) == tr # 1 /\ sd /\ tr = 2

(* ---- mmc_claim_host / mmc_release_host ---- *)
CanClaim(ctx) == claimer = "none" \/ claimer = ctx

(* ---- __blk_end_request(req, error, nr_bytes) at the current position ---- *)
EndDone(nr) == Min(nr, rq_bytes)

EndEntry(error, nr, path) ==
    [start |-> rq_pos, nr |-> nr, done |-> EndDone(nr), error |-> error,
     path |-> path,
     plan |-> PlanSector(brq.arg, card_blockaddr),
     xfer |-> brq.bytes_xfered, blocks |-> brq.blocks, failed |-> AnyError(brq),
     reinits |-> reinits]

blk_end_request(error, nr, path) ==
    /\ rq_bytes' = rq_bytes - EndDone(nr)
    /\ rq_pos' = rq_pos + (EndDone(nr) \div SectorSize)
    /\ ret' = IF rq_bytes - EndDone(nr) > 0 THEN 1 ELSE 0
    /\ log' = Append(log, EndEntry(error, nr, path))

(* a transport command is issued by the request's context *)
IssueCmd ==
    bad_cmd' = (bad_cmd \/ claimer # "rq" \/ other_pc = "incmd")

(* variant: a card already marked removed is removed again *)
RemoveCardActsAgain == card_present

(* ---- remove_card, lines 275-292 ---- *)
RemoveCardActs == ~card_removed /\ card_present

remove_card ==
    /\ card_removed' = (card_removed \/ RemoveCardActs)
    /\ removal_work' = removal_work + (IF RemoveCardActs THEN 1 ELSE 0)

(* ---- Init: one request handed to mmc_blk_issue_rq ---- *)
(* the request, of one of the byte lengths `sizes` *)
InitRq(sizes) ==
    /\ rq_dir \in {READ, WRITE}
    /\ rq_pos = StartSector
    /\ rq_bytes \in sizes
    /\ rq_pos0 = rq_pos
    /\ rq_bytes0 = rq_bytes

(* the card and the host, in any state earlier requests can have left *)
InitCard ==
    /\ card_sd \in BOOLEAN
    /\ card_blockaddr \in BOOLEAN
    /\ card_removed \in BOOLEAN
    /\ card_present \in (IF card_removed THEN {TRUE} ELSE BOOLEAN)
    /\ host_spi \in BOOLEAN
    /\ max_blk_count \in 1 .. MaxSectors
    /\ removal_work = 0
    /\ claimer = "none"
    /\ claim_cnt = 0
    /\ other_pc = "idle"

(* the locals of mmc_blk_issue_rq, lines 299-301, followed from `at` with   *)
(* disable_multi one of `dms`                                               *)
InitLocals(at, dms) ==
    /\ pc = at
    /\ ret = 1
    /\ disable_multi \in dms
    /\ card_no_ready = 0
    /\ err = 0
    /\ try_recovery = 1
    /\ do_reinit = 0
    /\ do_remove = 0
    /\ brq = NoBrq
    /\ poll_i = 0
    /\ expired = FALSE
    /\ retval = -1
    /\ log = << >>
    /\ xlog = << >>
    /\ reinits = 0
    /\ nclaims = 0
    /\ nreleases = 0
    /\ reclaims = 0
    /\ bad_cmd = FALSE
    /\ fatal_from = "none"
    /\ no_ready_seen = 0

(* no scatter list is followed *)
NoSg ==
    /\ sg = << >>
    /\ sg_len = 0
    /\ sg_i = 0
    /\ data_size = 0

(* no poll delay is followed *)
NoDelay ==
    /\ msec = 0
    /\ slept = 0
    /\ elapsed = 0

(* the request is followed from mmc_claim_host on, with md->lock free *)
NoIssue ==
    /\ md_lock = FALSE
    /\ site = "none"
    /\ bus_needs_resume = FALSE
    /\ bus_manual_resume = FALSE
    /\ bus_fails_resume = FALSE
    /\ retries = 3
    /\ rs_j = 0
    /\ blksz_due = FALSE
    /\ wr_blocks = 0

(* no genlock and no handle exists *)
NoGenlock ==
    /\ gl_state = "UNLOCKED"
    /\ gl_active = << >>
    /\ h_attached = << >>
    /\ h_active = << >>
    /\ h_pc = << >>
    /\ h_op = << >>
    /\ h_ticks = << >>
    /\ gl_last = << >>

(* the other subsystems are idle *)
(* the shared memory between two calls of msm_proc_comm *)
ShmIdle == [app_command |-> PCOM_CMD_IDLE, app_status |-> PCOM_INVALID_STATUS,
            app_data1 |-> 0, app_data2 |-> 0, mdm_status |-> PCOM_READY]

(* a call of msm_proc_comm before its first step, for the default inputs *)
PcomCall ==
    [pc |-> "call", lock |-> FALSE, shm |-> ShmIdle,
     arg |-> [cmd |-> PcomCmd, p1 |-> FALSE, p2 |-> FALSE, in1 |-> 0, in2 |-> 0,
              hook |-> FALSE, reset_hook |-> FALSE, timeout_reset |-> FALSE],
     data |-> << 0, 0 >>, ret |-> 0, timeout |-> 0,
     modem |-> [crashed |-> FALSE, notified |-> FALSE],
     hist |-> [sent |-> << >>, last_cmd |-> PCOM_CMD_IDLE, restarted |-> FALSE]]

(* msm_proc_comm is not called *)
NoProcComm == pcm = << >>

(* memset(train_set, 0, 4), line 1091 *)
TrainSetZero == [vs |-> 0, max_swing |-> FALSE, pe |-> 0, max_pe |-> FALSE]

(* lines 1091-1094: intel_dp_link_train at its first pass *)
DpStart ==
    [pc |-> "clock_recovery", train_set |-> TrainSetZero, voltage |-> VoltageNone, tries |-> 0,
     first |-> TRUE, clock_recovery |-> FALSE, channel_eq |-> FALSE,
     output_reg |-> "off", sink_pattern |-> "disable",
     hist |-> [run_vs |-> 0, run_n |-> 0, pat2 |-> 0]]

(* no link is trained *)
NoLinkTrain == dp = << >>

(* no card is bound to the block driver *)
NoSlots == blk = << >>

NoExt == NoGenlock /\ NoProcComm /\ NoLinkTrain /\ NoSlots

Init ==
    /\ InitRq({ n * SectorSize : n \in 1 .. MaxSectors })
    /\ InitCard
    /\ InitLocals("start", {0})
    /\ NoSg
    /\ NoDelay
    /\ NoIssue
    /\ NoExt

(* variant: the loop is entered without claiming the host *)
ClaimHostSkip ==
    /\ pc = "start"
    /\ pc' = "exec"
    /\ UNCHANGED << rqVars, cfgVars, extVars, sgVars, dlVars, no_ready_seen,
                    card_removed, removal_work, other_pc, ret,
                    disable_multi, card_no_ready, err, try_recovery, do_reinit,
                    do_remove, brq, poll_i, expired, retval, log, xlog, reinits,
                    bad_cmd, fatal_from, claimVars >>

(* ---- mmc_claim_host(card->host), line 376 ---- *)
ClaimHost ==
    /\ pc = "start"
    /\ CanClaim("rq")
    /\ claimer' = "rq"
    /\ claim_cnt' = claim_cnt + 1
    /\ nclaims' = nclaims + 1
    /\ reclaims' = reclaims + (IF claimer = "rq" THEN 1 ELSE 0)
    /\ pc' = "exec"
    /\ UNCHANGED << rqVars, cfgVars, extVars, sgVars, dlVars, no_ready_seen,
                    card_removed, removal_work, other_pc, ret,
                    disable_multi, card_no_ready, err, try_recovery, do_reinit,
                    do_remove, brq, poll_i, expired, retval, log, xlog, reinits,
                    nreleases, bad_cmd, fatal_from >>

(* ---- one pass of the loop body up to the status poll, lines 379-557: ---- *)
(* build the plan, mmc_wait_for_req, the error check and get_card_status    *)
FailSector(b, o, blockaddr) ==
    IF o.cmd_error \/ o.data_error
    THEN PlanSector(b.arg, blockaddr) + (o.bytes_xfered \div SectorSize)
    ELSE -1

(* variant: only a command error of a multi-block read is retried locally *)
MultiReadFailCmdOnly(blocks, dir, o) == o.cmd_error /\ blocks > 1 /\ dir = READ

MultiReadFail(blocks, dir, o) == AnyError(o) /\ blocks > 1 /\ dir = READ

(* variant: single-block mode outlives an error-free execution *)
NextDisableMultiSticky(dm, blocks, dir, o) ==
    IF AnyError(o)
    THEN (IF blocks > 1 /\ dir = READ THEN 1 ELSE dm)
    ELSE dm

(* variant: a failed multi-block read does not enter single-block mode *)
NextDisableMultiStuck(dm, blocks, dir, o) ==
    IF AnyError(o) THEN dm ELSE (IF dm = 1 THEN 0 ELSE dm)

NextDisableMulti(dm, blocks, dir, o) ==
    IF AnyError(o)
    THEN (IF blocks > 1 /\ dir = READ THEN 1 ELSE dm)
    ELSE (IF dm = 1 THEN 0 ELSE dm)

Execute ==
    /\ pc = "exec"
    /\ Len(xlog) < IterCap
    /\ LET blocks == PlanBlocks(blk_rq_sectors, max_blk_count, disable_multi)
           arg == PlanArg(rq_pos, card_blockaddr)
           stop == PlanStop(blocks, host_spi, rq_dir)
       IN  \E o \in Outcomes(blocks, stop) :
             LET b == [arg |-> arg, blocks |-> blocks,
                       opcode |-> PlanOpcode(blocks, rq_dir), stop |-> stop,
                       cmd_error |-> o.cmd_error, data_error |-> o.data_error,
                       stop_error |-> o.stop_error,
                       bytes_xfered |-> o.bytes_xfered]
             IN  /\ brq' = b
                 /\ xlog' = Append(xlog,
                        [sector |-> PlanSector(arg, card_blockaddr),
                         blocks |-> blocks, dir |-> rq_dir, opcode |-> b.opcode,
                         stop |-> stop, failed |-> AnyError(o),
                         fail_sector |-> FailSector(b, o, card_blockaddr),
                         dm |-> disable_multi, try |-> try_recovery,
                         nlog |-> Len(log), reinits |-> reinits,
                         removals |-> removal_work])
                 /\ disable_multi' = NextDisableMulti(disable_multi, blocks, rq_dir, o)
                 /\ IssueCmd
                 /\ IF MultiReadFail(blocks, rq_dir, o)
                    THEN /\ pc' = "exec"
                         /\ UNCHANGED << poll_i, expired, err >>
                    ELSE IF ~host_spi /\ rq_dir # READ
                    THEN /\ pc' = "poll"
                         /\ poll_i' = 0
                         /\ expired' = FALSE
                         /\ err' = 0
                    ELSE /\ pc' = "recovery"
                         /\ UNCHANGED << poll_i, expired, err >>
    /\ UNCHANGED << rqVars, cfgVars, extVars, sgVars, dlVars, no_ready_seen,
                    card_removed, removal_work, claimVars, other_pc,
                    ret, card_no_ready, try_recovery, do_reinit, do_remove, retval,
                    log, reinits, fatal_from >>

(* ---- the write status poll, lines 559-634 ---- *)
CardStates == {StateTran, StateData, StatePrg}

(* variant: the deadline alone ends the poll, whatever the poll count *)
PollTimedOutEarly(exp, i) == exp

PollTimedOut(exp, i) == exp /\ i >= PollMinCount

PollAgain(ready, st) == ~ready \/ st = StatePrg

PollRoom(i) ==
    IF i < PollMinCount THEN i + 1 <= MaxPolls ELSE i + 1 <= PollMinCount + MaxPolls

PollStatus ==
    /\ pc = "poll"
    /\ \E e \in BOOLEAN, ready \in BOOLEAN, st \in CardStates, tick \in BOOLEAN :
         LET exp == expired \/ tick
         IN  /\ IssueCmd
             /\ IF e
                THEN /\ err' = ETIMEDOUT
                     /\ pc' = "cmd_err"
                     /\ fatal_from' = "poll_err"
                     /\ UNCHANGED << poll_i, expired, do_reinit, do_remove,
                                     try_recovery, card_no_ready, no_ready_seen >>
                ELSE IF PollTimedOut(exp, poll_i)
                THEN /\ expired' = exp
                     /\ UNCHANGED fatal_from
                     /\ pc' = "recovery"
                     /\ poll_i' = poll_i
                     /\ IF ready /\ st = StateTran
                        THEN /\ err' = 0
                             /\ card_no_ready' = 0
                             /\ UNCHANGED << do_reinit, do_remove, try_recovery,
                                             no_ready_seen >>
                        ELSE /\ no_ready_seen' = no_ready_seen + 1
                             /\ do_reinit' = IF SchedReinit(try_recovery) THEN 1 ELSE do_reinit
                             /\ do_remove' = IF SchedRemove(try_recovery, card_sd) THEN 1 ELSE do_remove
                             /\ try_recovery' = try_recovery + 1
                             /\ err' = 1
                             /\ card_no_ready' = card_no_ready + 1
                ELSE /\ expired' = exp
                     /\ UNCHANGED fatal_from
                     /\ poll_i' = poll_i + 1
                     /\ err' = 0
                     /\ UNCHANGED << do_reinit, do_remove, try_recovery, no_ready_seen >>
                     /\ IF PollAgain(ready, st)
                        THEN /\ PollRoom(poll_i)
                             /\ pc' = "poll"
                             /\ UNCHANGED card_no_ready
                        ELSE /\ pc' = "recovery"
                             /\ card_no_ready' = 0
    /\ UNCHANGED << rqVars, cfgVars, extVars, sgVars, dlVars,
                    card_removed, removal_work, claimVars, other_pc,
                    ret, disable_multi, brq, retval, log, xlog, reinits >>

(* the card stays busy, without a command error, through every poll up to  *)
(* poll PollMinCount: the timeout test cannot fire before that poll         *)
PollBusyRun ==
    /\ pc = "poll"
    /\ poll_i < PollMinCount
    /\ poll_i' = PollMinCount
    /\ expired' \in {expired, TRUE}
    /\ err' = 0
    /\ IssueCmd
    /\ UNCHANGED << rqVars, cfgVars, extVars, sgVars, dlVars, no_ready_seen,
                    card_removed, removal_work, claimVars, other_pc,
                    pc, ret, disable_multi, card_no_ready, try_recovery, do_reinit,
                    do_remove, brq, retval, log, xlog, reinits, fatal_from >>

(* ---- mmc_blk_set_blksize called with the host claimed, lines 249-273 ---- *)
(* net effect of its claim / command / release on the claim                 *)
SetBlksizeClaims(blockaddr) == IF blockaddr THEN 0 ELSE 1

set_blksize_held ==
    /\ nclaims' = nclaims + SetBlksizeClaims(card_blockaddr)
    /\ nreleases' = nreleases + SetBlksizeClaims(card_blockaddr)
    /\ reclaims' = reclaims + (IF claimer = "rq" THEN SetBlksizeClaims(card_blockaddr) ELSE 0)
    /\ UNCHANGED << claimer, claim_cnt >>

(* ---- recovery: label, lines 635-657 ---- *)
Recovery ==
    /\ pc = "recovery"
    /\ do_reinit # 0 \/ do_remove # 0
    /\ IF do_reinit # 0
       THEN /\ do_reinit' = 0
            /\ UNCHANGED do_remove
            /\ IF card_removed
               THEN /\ pc' = "cmd_err"
                    /\ fatal_from' = "removed"
                    /\ UNCHANGED << err, reinits, bad_cmd, card_removed, removal_work,
                                    claimVars >>
               ELSE \E ok \in BOOLEAN :
                      /\ reinits' = reinits + 1
                      /\ err' = IF ok THEN 0 ELSE ETIMEDOUT
                      /\ IssueCmd
                      /\ IF ok
                         THEN /\ set_blksize_held
                              /\ pc' = "exec"
                              /\ UNCHANGED fatal_from
                              /\ UNCHANGED << card_removed, removal_work >>
                         ELSE /\ IF card_sd
                                 THEN remove_card
                                 ELSE UNCHANGED << card_removed, removal_work >>
                              /\ pc' = "cmd_err"
                              /\ fatal_from' = "reinit_failed"
                              /\ UNCHANGED claimVars
       ELSE /\ do_remove' = 0
            /\ UNCHANGED do_reinit
            /\ remove_card
            /\ pc' = "cmd_err"
            /\ fatal_from' = "remove"
            /\ UNCHANGED << err, reinits, bad_cmd, claimVars >>
    /\ UNCHANGED << rqVars, cfgVars, extVars, sgVars, dlVars, no_ready_seen,
                    other_pc, ret, disable_multi, card_no_ready,
                    try_recovery, brq, poll_i, expired, retval, log, xlog >>

(* ---- the ladder and the completion of the plan, lines 659-688 ---- *)
(* variant: the loop is left after the first completion call *)
LoopNextStop(left) == "exit"

LoopNext(left) == IF left > 0 THEN "exec" ELSE "exit"

Ladder ==
    /\ pc = "recovery"
    /\ do_reinit = 0 /\ do_remove = 0
    /\ IF AnyError(brq) \/ card_no_ready # 0
       THEN /\ do_reinit' = IF SchedReinit(try_recovery) THEN 1 ELSE do_reinit
            /\ do_remove' = IF SchedRemove(try_recovery, card_sd) THEN 1 ELSE do_remove
            /\ try_recovery' = try_recovery + 1
            /\ IF SchedReinit(try_recovery) \/ SchedRemove(try_recovery, card_sd)
               THEN /\ pc' = "recovery"
                    /\ UNCHANGED << rq_pos, rq_bytes, ret, log, fatal_from >>
               ELSE IF rq_dir = READ
               THEN /\ blk_end_request(EIO, SectorSize, "rd_eio")
                    /\ pc' = LoopNext(rq_bytes - EndDone(SectorSize))
                    /\ UNCHANGED fatal_from
               ELSE /\ pc' = "cmd_err"
                    /\ fatal_from' = "ladder"
                    /\ UNCHANGED << rq_pos, rq_bytes, ret, log >>
       ELSE /\ blk_end_request(0, brq.bytes_xfered, "ok")
            /\ pc' = LoopNext(rq_bytes - EndDone(brq.bytes_xfered))
            /\ UNCHANGED << do_reinit, do_remove, try_recovery, fatal_from >>
    /\ UNCHANGED << rq_dir, rq_pos0, rq_bytes0, cfgVars, extVars, sgVars, dlVars, no_ready_seen,
                    card_removed, removal_work,
                    claimVars, other_pc, disable_multi, card_no_ready, err, brq,
                    poll_i, expired, retval, xlog, reinits, bad_cmd >>

(* ---- normal loop exit, lines 688-692 ---- *)
release_host ==
    /\ claim_cnt' = claim_cnt - 1
    /\ claimer' = IF claim_cnt - 1 = 0 THEN "none" ELSE claimer
    /\ nreleases' = nreleases + 1
    /\ UNCHANGED << nclaims, reclaims >>

Exit ==
    /\ pc = "exit"
    /\ release_host
    /\ retval' = 1
    /\ pc' = "done"
    /\ UNCHANGED << rqVars, cfgVars, extVars, sgVars, dlVars, no_ready_seen,
                    card_removed, removal_work, other_pc, ret,
                    disable_multi, card_no_ready, err, try_recovery, do_reinit,
                    do_remove, brq, poll_i, expired, log, xlog, reinits, bad_cmd,
                    fatal_from >>

(* ---- cmd_err: the success prefix and the release, lines 694-718 ---- *)
(* mmc_sd_num_wr_blocks: (u32)-1 when the query fails, else the card's      *)
(* count of well written blocks of the last write command it received: at   *)
(* most the blocks of the plan when that is the last write, the count of an *)
(* earlier write when the request reads or the card never got the command   *)
WrCounts(dir, b) ==
    (IF dir = WRITE /\ ~b.cmd_error
     THEN 0 .. b.blocks
     ELSE 0 .. (MaxSectors + 1))
    \cup {WrBlocksFailed}

CmdErr ==
    /\ pc = "cmd_err"
    /\ IF card_sd
       THEN \E blocks \in WrCounts(rq_dir, brq) :
              /\ IssueCmd
              /\ IF blocks # WrBlocksFailed
                 THEN blk_end_request(0, Shl9(blocks), "prefix_sd")
                 ELSE UNCHANGED << rq_pos, rq_bytes, ret, log >>
       ELSE /\ blk_end_request(0, brq.bytes_xfered, "prefix")
            /\ UNCHANGED bad_cmd
    /\ release_host
    /\ pc' = "fail_rest"
    /\ UNCHANGED << rq_dir, rq_pos0, rq_bytes0, cfgVars, extVars, sgVars, dlVars, no_ready_seen,
                    card_removed, removal_work,
                    other_pc, disable_multi, card_no_ready, err, try_recovery,
                    do_reinit, do_remove, brq, poll_i, expired, retval, xlog, reinits,
                    fatal_from >>

(* ---- cmd_err: fail what is left, lines 720-725 ---- *)
(* blk_rq_cur_bytes is the size of the request's current segment            *)
(* (0 when the request has no bytes)                                        *)
CurBytes ==
    IF blk_rq_sectors = 0 THEN {0} ELSE { n * SectorSize : n \in 1 .. blk_rq_sectors }

(* variant: what is left is failed by a single call for the current segment *)
FailRestOnce ==
    /\ pc = "fail_rest"
    /\ IF ret # 0
       THEN /\ \E cur \in CurBytes : blk_end_request(EIO, cur, "rest")
       ELSE UNCHANGED << rq_pos, rq_bytes, ret, log >>
    /\ retval' = 0
    /\ pc' = "done"
    /\ UNCHANGED << rq_dir, rq_pos0, rq_bytes0, cfgVars, extVars, sgVars, dlVars, no_ready_seen,
                    card_removed, removal_work,
                    claimVars, other_pc, disable_multi, card_no_ready, err,
                    try_recovery, do_reinit, do_remove, brq, poll_i, expired, xlog,
                    reinits, bad_cmd, fatal_from >>

FailRest ==
    /\ pc = "fail_rest"
    /\ IF ret # 0
       THEN /\ \E cur \in CurBytes : blk_end_request(EIO, cur, "rest")
            /\ pc' = "fail_rest"
            /\ UNCHANGED retval
       ELSE /\ retval' = 0
            /\ pc' = "done"
            /\ UNCHANGED << rq_pos, rq_bytes, ret, log >>
    /\ UNCHANGED << rq_dir, rq_pos0, rq_bytes0, cfgVars, extVars, sgVars, dlVars, no_ready_seen,
                    card_removed, removal_work,
                    claimVars, other_pc, disable_multi, card_no_ready, err,
                    try_recovery, do_reinit, do_remove, brq, poll_i, expired, xlog,
                    reinits, bad_cmd, fatal_from >>

(* ---- another context of the same host: claim, one command, release ---- *)
rqAll == << rqVars, cfgVars, extVars, sgVars, dlVars, no_ready_seen,
            card_removed, removal_work, pc, ret, disable_multi,
            card_no_ready, err, try_recovery, do_reinit, do_remove, brq, poll_i,
            expired, retval, log, xlog, reinits, nclaims, nreleases, reclaims,
            bad_cmd, fatal_from >>

(* the other context is followed while the request can still issue commands *)
RqActive == pc \notin {"fail_rest", "done"}

OtherClaim ==
    /\ RqActive
    /\ other_pc = "idle"
    /\ CanClaim("other")
    /\ claimer' = "other"
    /\ claim_cnt' = claim_cnt + 1
    /\ other_pc' = "claimed"
    /\ UNCHANGED rqAll

OtherBegin ==
    /\ other_pc = "claimed"
    /\ other_pc' = "incmd"
    /\ UNCHANGED << rqAll, claimer, claim_cnt >>

OtherEnd ==
    /\ other_pc = "incmd"
    /\ other_pc' = "cmddone"
    /\ UNCHANGED << rqAll, claimer, claim_cnt >>

OtherRelease ==
    /\ other_pc = "cmddone"
    /\ claim_cnt' = claim_cnt - 1
    /\ claimer' = IF claim_cnt - 1 = 0 THEN "none" ELSE claimer
    /\ other_pc' = "idle"
    /\ UNCHANGED rqAll

Next ==
    \/ ClaimHost
    \/ Execute
    \/ PollStatus
    \/ PollBusyRun
    \/ Recovery
    \/ Ladder
    \/ Exit
    \/ CmdErr
    \/ FailRest
    \/ OtherClaim
    \/ OtherBegin
    \/ OtherEnd
    \/ OtherRelease

Spec == Init /\ [][Next]_vars

(* ---- a request of zero sectors handed to mmc_blk_issue_rq ---- *)
InitZero ==
    /\ InitRq({0})
    /\ InitCard
    /\ InitLocals("start", {0})
    /\ NoSg
    /\ NoDelay
    /\ NoIssue
    /\ NoExt

SpecZero == InitZero /\ [][Next]_vars

(***************************************************************************)
(* The scatter list of a plan, lines 467-487                               *)
(***************************************************************************)
(* mmc_queue_map_sg: the entries mapped for a request of n sectors, each a  *)
(* positive number of sectors long, together as long as the request         *)
RECURSIVE SgLists(_)
SgLists(n) ==
    IF n = 0
    THEN { << >> }
    ELSE UNION { { << k * SectorSize >> \o t : t \in SgLists(n - k) } : k \in 1 .. n }

(* one pass of the loop is followed from its top: in single-block mode only *)
(* for a read request                                                       *)
InitSg ==
    /\ InitRq({ n * SectorSize : n \in 1 .. MaxSgSectors })
    /\ InitCard
    /\ InitLocals("sg_map", IF rq_dir = READ THEN {0, 1} ELSE {0})
    /\ NoSg
    /\ NoDelay
    /\ NoIssue
    /\ NoExt

sgFrame == << rqVars, cfgVars, extVars, dlVars, no_ready_seen, card_removed, removal_work, claimVars,
             other_pc, ret, disable_multi, card_no_ready, err, try_recovery,
             do_reinit, do_remove, poll_i, expired, retval, log, xlog, reinits,
             bad_cmd, fatal_from >>

(* lines 386-468: the plan is sized and the request is mapped *)
SgMap ==
    /\ pc = "sg_map"
    /\ brq' = [NoBrq EXCEPT
                 !.arg = PlanArg(rq_pos, card_blockaddr),
                 !.blocks = PlanBlocks(blk_rq_sectors, max_blk_count, disable_multi)]
    /\ \E l \in SgLists(blk_rq_sectors) :
         /\ sg' = l
         /\ sg_len' = Len(l)
    /\ pc' = "sg_test"
    /\ UNCHANGED << sgFrame, sg_i, data_size >>

(* lines 474-478: the list is adjusted when the plan is not the whole request *)
SgTest ==
    /\ pc = "sg_test"
    /\ IF brq.blocks # blk_rq_sectors
       THEN /\ data_size' = Shl9(brq.blocks)
            /\ sg_i' = 0
            /\ pc' = "sg_loop"
       ELSE /\ pc' = "sg_done"
            /\ UNCHANGED << sg_i, data_size >>
    /\ UNCHANGED << sgFrame, brq, sg, sg_len >>

(* variant: the entry that crosses the planned size is kept whole *)
SgTrimNone(len, ds) == len

(* sg->length += data_size, line 481 *)
SgTrim(len, ds) == len + ds

(* lines 478-485: one step of for_each_sg *)
SgIter ==
    /\ pc = "sg_loop"
    /\ IF sg_i < sg_len
       THEN LET ds == data_size - sg[sg_i + 1]
            IN  /\ data_size' = ds
                /\ sg_i' = sg_i + 1
                /\ IF ds <= 0
                   THEN /\ sg' = [sg EXCEPT ![sg_i + 1] = SgTrim(sg[sg_i + 1], ds)]
                        /\ pc' = "sg_set"
                   ELSE /\ pc' = "sg_loop"
                        /\ UNCHANGED sg
       ELSE /\ pc' = "sg_set"
            /\ UNCHANGED << sg, sg_i, data_size >>
    /\ UNCHANGED << sgFrame, brq, sg_len >>

(* line 486: brq.data.sg_len = i *)
SgSet ==
    /\ pc = "sg_set"
    /\ sg_len' = sg_i
    /\ pc' = "sg_done"
    /\ UNCHANGED << sgFrame, brq, sg, sg_i, data_size >>

NextSg ==
    \/ SgMap
    \/ SgTest
    \/ SgIter
    \/ SgSet

SpecSg == InitSg /\ [][NextSg]_vars

(***************************************************************************)
(* The inter-poll delay of the write status poll, lines 559-614            *)
(***************************************************************************)
(* fls: the position of the most significant set bit, 0 for 0 *)
RECURSIVE fls(_)
fls(x) == IF x = 0 THEN 0 ELSE 1 + fls(x \div 2)

(* variant: the poll sleeps on every card type *)
SleepyAlways(sd) == TRUE

(* int sleepy = mmc_card_sd(card) ? 1 : 0, line 561 *)
Sleepy(sd) == sd

(* the poll of a write on a non-SPI host is entered, line 559, and followed *)
(* while the card answers busy                                              *)
InitDelay ==
    /\ InitRq({SectorSize})
    /\ InitCard
    /\ InitLocals("dl_sleep", {0})
    /\ NoSg
    /\ NoDelay
    /\ NoIssue
    /\ NoExt
    /\ rq_dir = WRITE
    /\ ~host_spi
    /\ ~card_removed /\ card_present

dlFrame == << rqVars, cfgVars, extVars, sgVars, no_ready_seen, card_removed, removal_work,
             claimVars, other_pc, ret, disable_multi, card_no_ready, err,
             try_recovery, do_reinit, do_remove, brq, retval, log, xlog, reinits,
             bad_cmd, fatal_from >>

(* lines 567-577: the sleep before the status command of pass poll_i *)
DlSleep ==
    /\ pc = "dl_sleep"
    /\ IF Sleepy(card_sd) /\ fls(poll_i) > SleepFlsMin
       THEN /\ msec' = fls(poll_i \div SleepShift)
            /\ slept' = msec'
            /\ elapsed' = elapsed + msec'
       ELSE /\ slept' = 0
            /\ UNCHANGED << msec, elapsed >>
    /\ pc' = "dl_cmd"
    /\ UNCHANGED << dlFrame, poll_i, expired >>

(* lines 579-614: the status command is answered busy; the deadline has     *)
(* passed for sure once the poll has slept two seconds                      *)
DlPoll ==
    /\ pc = "dl_cmd"
    /\ \E tick \in BOOLEAN :
         LET exp == expired \/ tick \/ elapsed >= 2 * DeadlineMs
         IN  /\ expired' = exp
             /\ IF PollTimedOut(exp, poll_i)
                THEN /\ pc' = "dl_done"
                     /\ UNCHANGED poll_i
                ELSE /\ poll_i + 1 <= MaxDelayPolls
                     /\ poll_i' = poll_i + 1
                     /\ pc' = "dl_sleep"
    /\ UNCHANGED << dlFrame, dlVars >>

NextDelay ==
    \/ DlSleep
    \/ DlPoll

SpecDelay == InitDelay /\ [][NextDelay]_vars

(***************************************************************************)
(* mmc_blk_resume and the whole of mmc_blk_issue_rq, with the deferred     *)
(* bus resume (lines 307-374, CONFIG_MMC_BLOCK_DEFERRED_RESUME) and with   *)
(* md->lock followed call site by call site: spin_lock_irq, the completion *)
(* call and spin_unlock_irq are steps of their own.  The call sites are    *)
(*   "resume"    lines 317-319     "gate"      lines 368-370               *)
(*   "rd_eio"    lines 674-676     "ok"        lines 685-687               *)
(*   "prefix_sd" lines 708-710     "prefix"    lines 713-715               *)
(*   "rest"      lines 720-723                                             *)
(* The block driver binds MMC and SD cards: mmc_card_mmc is ~card_sd.      *)
(* Of the host, mmc_bus_manual_resume is a setting; a manual-resume host   *)
(* leaves mmc_bus_needs_resume set when the system resumes;                *)
(* mmc_resume_bus returns an error or 0 and leaves mmc_bus_fails_resume    *)
(* set or clear.  A bus resume makes the card lose its block length.       *)
(***************************************************************************)
MaxIssueSectors == 1   \* sectors of the requests followed through the locks

InitIssue ==
    /\ InitRq({ n * SectorSize : n \in 1 .. MaxIssueSectors })
    /\ InitCard
    /\ \E at \in {"is_suspended", "is_entry"} : InitLocals(at, {0})
    /\ NoSg
    /\ NoDelay
    /\ md_lock = FALSE
    /\ site = "none"
    /\ bus_manual_resume \in (IF pc = "is_suspended" THEN BOOLEAN ELSE {FALSE})
    /\ bus_needs_resume = bus_manual_resume
    /\ bus_fails_resume = FALSE
    /\ retries = 3
    /\ rs_j = 0
    /\ blksz_due = (pc = "is_suspended")
    /\ wr_blocks = 0
    /\ NoExt

(* what no step of this part changes *)
isFrame == << rq_dir, rq_pos0, rq_bytes0, cfgVars, ext2Vars, sgVars, dlVars, no_ready_seen,
              other_pc, disable_multi, brq, poll_i, expired, xlog, reinits,
              bus_manual_resume >>
ladderVars == << try_recovery, do_reinit, do_remove, fatal_from >>

(* mmc_blk_set_blksize called without the host claimed, lines 249-273: the *)
(* command is skipped for block-addressed cards and its result is ignored  *)
(* (nclaims and nreleases count the claims of the loop, from line 376 on)   *)
set_blksize_free ==
    /\ blksz_due' = (blksz_due /\ SetBlksizeClaims(card_blockaddr) = 0)
    /\ UNCHANGED claimVars

(* ---- mmc_blk_resume, lines 937-951 ---- *)
IsBlkResume ==
    /\ pc = "is_suspended"
    /\ IF ~bus_manual_resume
       THEN set_blksize_free
       ELSE UNCHANGED << claimVars, blksz_due >>
    /\ pc' = "is_entry"
    /\ UNCHANGED << isFrame, ladderVars, rq_pos, rq_bytes, ret, log, card_removed,
                    removal_work, card_no_ready, err, retval, bad_cmd, md_lock, site,
                    bus_needs_resume, bus_fails_resume, retries, rs_j, wr_blocks >>

(* ---- lines 308-309 ---- *)
IsEntry ==
    /\ pc = "is_entry"
    /\ retries' = 3
    /\ pc' = IF bus_needs_resume THEN "is_resume_bus" ELSE "is_gate"
    /\ UNCHANGED << isFrame, ladderVars, rq_pos, rq_bytes, ret, log, card_removed,
                    removal_work, claimVars, card_no_ready, err, retval, bad_cmd,
                    md_lock, site, bus_needs_resume, bus_fails_resume, rs_j,
                    blksz_due, wr_blocks >>

(* variant: the block length is not set after the bus resume *)
AfterResumeSkip(sd) == IF ~sd THEN "is_poll" ELSE "is_gate"

(* line 323: where the prologue goes on after a bus resume *)
AfterResume(sd) == "is_blksz"

(* ---- one mmc_resume_bus of the loop of lines 310-322 ---- *)
IsResumeBus ==
    /\ pc = "is_resume_bus"
    /\ \E e \in {0, ETIMEDOUT}, f \in BOOLEAN :
         /\ err' = e
         /\ bus_fails_resume' = f
         /\ IF e # 0 /\ retries - 1 # 0
            THEN /\ retries' = retries - 1
                 /\ pc' = "is_resume_bus"
                 /\ UNCHANGED << site, bus_needs_resume, blksz_due, rs_j >>
            ELSE IF e # 0
            THEN /\ retries' = retries - 1
                 /\ pc' = IF card_sd THEN "is_remove" ELSE "is_lock"
                 /\ site' = "resume"
                 /\ UNCHANGED << bus_needs_resume, blksz_due, rs_j >>
            ELSE /\ retries' = 3
                 /\ bus_needs_resume' = FALSE
                 /\ blksz_due' = TRUE
                 /\ rs_j' = 0
                 /\ pc' = AfterResume(card_sd)
                 /\ UNCHANGED site
    /\ UNCHANGED << isFrame, ladderVars, rq_pos, rq_bytes, ret, log, card_removed,
                    removal_work, claimVars, card_no_ready, retval, bad_cmd,
                    md_lock, wr_blocks >>

(* ---- remove_card(card->host) of line 316 ---- *)
IsRemoveEarly ==
    /\ pc = "is_remove"
    /\ remove_card
    /\ pc' = "is_lock"
    /\ UNCHANGED << isFrame, ladderVars, rq_pos, rq_bytes, ret, log, claimVars,
                    card_no_ready, err, retval, bad_cmd, isVars >>

(* ---- mmc_blk_set_blksize(md, card) of line 323 ---- *)
IsSetBlksize ==
    /\ pc = "is_blksz"
    /\ set_blksize_free
    /\ pc' = IF ~card_sd THEN "is_poll" ELSE "is_gate"
    /\ UNCHANGED << isFrame, ladderVars, rq_pos, rq_bytes, ret, log, card_removed,
                    removal_work, card_no_ready, err, retval, bad_cmd, md_lock, site,
                    bus_needs_resume, bus_fails_resume, retries, rs_j, wr_blocks >>

(* ---- one pass of the status poll of lines 325-362: claim, SEND_STATUS,   *)
(* release; the polls MaxPolls+1 .. PollMinCount-1 of a card that stays     *)
(* busy are passed over in one step, and j is not followed past             *)
(* PollMinCount, from where fls(j) > 10 stays true                          *)
IsPoll ==
    /\ pc = "is_poll"
    /\ UNCHANGED claimVars
    /\ \E e \in BOOLEAN, ready \in BOOLEAN, st \in CardStates, after \in BOOLEAN :
         IF e
         THEN /\ pc' = "is_sleep"
              /\ UNCHANGED << rs_j, card_no_ready >>
         ELSE IF PollTimedOut(after, rs_j)
         THEN /\ pc' = "is_gate"
              /\ card_no_ready' = IF ready /\ st = StateTran
                                  THEN card_no_ready ELSE card_no_ready + 1
              /\ UNCHANGED rs_j
         ELSE /\ rs_j' = IF rs_j < MaxPolls THEN rs_j + 1 ELSE PollMinCount
              /\ pc' = IF retries # 0 /\ PollAgain(ready, st) THEN "is_poll" ELSE "is_gate"
              /\ UNCHANGED card_no_ready
    /\ UNCHANGED << isFrame, ladderVars, rq_pos, rq_bytes, ret, log, card_removed,
                    removal_work, err, retval, bad_cmd, md_lock, site,
                    bus_needs_resume, bus_fails_resume, retries, blksz_due, wr_blocks >>

(* ---- lines 340-346: msleep(5), retries--, continue; the loop condition   *)
(* reads the response of the failed command, which holds anything           *)
IsSleep ==
    /\ pc = "is_sleep"
    /\ retries' = retries - 1
    /\ \E again \in BOOLEAN :
         pc' = IF retries - 1 # 0 /\ again THEN "is_poll" ELSE "is_gate"
    /\ UNCHANGED << isFrame, ladderVars, rq_pos, rq_bytes, ret, log, card_removed,
                    removal_work, claimVars, card_no_ready, err, retval, bad_cmd,
                    md_lock, site, bus_needs_resume, bus_fails_resume, rs_j,
                    blksz_due, wr_blocks >>

(* ---- lines 366-373; the locals of the prologue are dead past this test   *)
(* and are given back their initial values                                  *)
IsGate ==
    /\ pc = "is_gate"
    /\ IF bus_fails_resume \/ card_no_ready # 0 \/ retries = 0
       THEN /\ site' = "gate"
            /\ pc' = "is_lock"
            /\ UNCHANGED << retries, rs_j >>
       ELSE /\ pc' = "start"
            /\ retries' = 3
            /\ rs_j' = 0
            /\ UNCHANGED site
    /\ UNCHANGED << isFrame, ladderVars, rq_pos, rq_bytes, ret, log, card_removed,
                    removal_work, claimVars, card_no_ready, err, retval, bad_cmd,
                    md_lock, bus_needs_resume, bus_fails_resume, blksz_due, wr_blocks >>

(* ---- spin_lock_irq(&md->lock) ---- *)
SpinLock ==
    /\ pc = "is_lock"
    /\ ~md_lock
    /\ md_lock' = TRUE
    /\ pc' = "is_end"
    /\ UNCHANGED << isFrame, ladderVars, rq_pos, rq_bytes, ret, log, card_removed,
                    removal_work, claimVars, card_no_ready, err, retval, bad_cmd,
                    site, bus_needs_resume, bus_fails_resume, retries, rs_j,
                    blksz_due, wr_blocks >>

(* ---- the completion call of the site: __blk_end_request_all at "resume"  *)
(* and "gate", __blk_end_request elsewhere, repeated while (ret) at "rest"  *)
EndRequest ==
    /\ pc = "is_end"
    /\ IF site \in {"resume", "gate"}
       THEN /\ blk_end_request(EIO, rq_bytes, site)
            /\ pc' = "is_unlock"
       ELSE IF site = "rd_eio"
       THEN /\ blk_end_request(EIO, SectorSize, "rd_eio")
            /\ pc' = "is_unlock"
       ELSE IF site \in {"ok", "prefix"}
       THEN /\ blk_end_request(0, brq.bytes_xfered, site)
            /\ pc' = "is_unlock"
       ELSE IF site = "prefix_sd"
       THEN /\ blk_end_request(0, Shl9(wr_blocks), "prefix_sd")
            /\ pc' = "is_unlock"
       ELSE IF ret # 0
       THEN /\ \E cur \in CurBytes : blk_end_request(EIO, cur, "rest")
            /\ pc' = "is_end"
       ELSE /\ pc' = "is_unlock"
            /\ UNCHANGED << rq_pos, rq_bytes, ret, log >>
    /\ UNCHANGED << isFrame, ladderVars, card_removed, removal_work, claimVars,
                    card_no_ready, err, retval, bad_cmd, isVars >>

(* variant: the lock is kept after the -EIO completion of a read sector *)
SpinUnlockKeep ==
    /\ pc = "is_unlock"
    /\ md_lock' = (site = "rd_eio")
    /\ IF site \in {"resume", "gate", "rest"}
       THEN /\ retval' = 0
            /\ pc' = "done"
       ELSE /\ pc' = IF site \in {"rd_eio", "ok"} THEN LoopNext(rq_bytes) ELSE "is_release"
            /\ UNCHANGED retval
    /\ UNCHANGED << isFrame, ladderVars, rq_pos, rq_bytes, ret, log, card_removed,
                    removal_work, claimVars, card_no_ready, err, bad_cmd,
                    site, bus_needs_resume, bus_fails_resume, retries, rs_j,
                    blksz_due, wr_blocks >>

(* ---- spin_unlock_irq(&md->lock) and what follows it at the site: return  *)
(* 0, the loop test while (ret), or mmc_release_host                        *)
SpinUnlock ==
    /\ pc = "is_unlock"
    /\ md_lock' = FALSE
    /\ IF site \in {"resume", "gate", "rest"}
       THEN /\ retval' = 0
            /\ pc' = "done"
       ELSE /\ pc' = IF site \in {"rd_eio", "ok"} THEN LoopNext(rq_bytes) ELSE "is_release"
            /\ UNCHANGED retval
    /\ UNCHANGED << isFrame, ladderVars, rq_pos, rq_bytes, ret, log, card_removed,
                    removal_work, claimVars, card_no_ready, err, bad_cmd,
                    site, bus_needs_resume, bus_fails_resume, retries, rs_j,
                    blksz_due, wr_blocks >>

(* ---- the ladder, lines 659-688, up to its spin_lock_irq ---- *)
IsLadder ==
    /\ pc = "recovery"
    /\ do_reinit = 0 /\ do_remove = 0
    /\ IF AnyError(brq) \/ card_no_ready # 0
       THEN /\ do_reinit' = IF SchedReinit(try_recovery) THEN 1 ELSE do_reinit
            /\ do_remove' = IF SchedRemove(try_recovery, card_sd) THEN 1 ELSE do_remove
            /\ try_recovery' = try_recovery + 1
            /\ IF SchedReinit(try_recovery) \/ SchedRemove(try_recovery, card_sd)
               THEN /\ pc' = "recovery"
                    /\ UNCHANGED << site, fatal_from >>
               ELSE IF rq_dir = READ
               THEN /\ site' = "rd_eio"
                    /\ pc' = "is_lock"
                    /\ UNCHANGED fatal_from
               ELSE /\ pc' = "cmd_err"
                    /\ fatal_from' = "ladder"
                    /\ UNCHANGED site
       ELSE /\ site' = "ok"
            /\ pc' = "is_lock"
            /\ UNCHANGED ladderVars
    /\ UNCHANGED << isFrame, rq_pos, rq_bytes, ret, log, card_removed,
                    removal_work, claimVars, card_no_ready, err, retval, bad_cmd,
                    md_lock, bus_needs_resume, bus_fails_resume, retries, rs_j,
                    blksz_due, wr_blocks >>

(* ---- cmd_err, lines 694-716, up to its spin_lock_irq ---- *)
IsCmdErr ==
    /\ pc = "cmd_err"
    /\ IF card_sd
       THEN \E blocks \in WrCounts(rq_dir, brq) :
              /\ IssueCmd
              /\ wr_blocks' = blocks
              /\ IF blocks # WrBlocksFailed
                 THEN /\ site' = "prefix_sd"
                      /\ pc' = "is_lock"
                 ELSE /\ pc' = "is_release"
                      /\ UNCHANGED site
       ELSE /\ site' = "prefix"
            /\ pc' = "is_lock"
            /\ UNCHANGED << bad_cmd, wr_blocks >>
    /\ UNCHANGED << isFrame, ladderVars, rq_pos, rq_bytes, ret, log, card_removed,
                    removal_work, claimVars, card_no_ready, err, retval,
                    md_lock, bus_needs_resume, bus_fails_resume, retries, rs_j,
                    blksz_due >>

(* ---- mmc_release_host(card->host) of line 718 ---- *)
IsRelease ==
    /\ pc = "is_release"
    /\ release_host
    /\ site' = "rest"
    /\ pc' = "is_lock"
    /\ UNCHANGED << isFrame, ladderVars, rq_pos, rq_bytes, ret, log, card_removed,
                    removal_work, card_no_ready, err, retval, bad_cmd,
                    md_lock, bus_needs_resume, bus_fails_resume, retries, rs_j,
                    blksz_due, wr_blocks >>

NextIssue ==
    \/ IsBlkResume
    \/ IsEntry
    \/ IsResumeBus
    \/ IsRemoveEarly
    \/ IsSetBlksize
    \/ IsPoll
    \/ IsSleep
    \/ IsGate
    \/ ClaimHost
    \/ Execute
    \/ PollStatus
    \/ PollBusyRun
    \/ Recovery
    \/ IsLadder
    \/ SpinLock
    \/ EndRequest
    \/ SpinUnlock
    \/ IsCmdErr
    \/ IsRelease
    \/ Exit

SpecIssue == InitIssue /\ [][NextIssue]_vars

(***************************************************************************)
(* Scenario B: a read of ScenBSectors sectors on a host that takes them in *)
(* one plan, of a card whose sector StartSector + ScenBBad gives a data    *)
(* error until the card has been reinitialised; mmc_reinit_card succeeds;  *)
(* no other context uses the host.                                         *)
(***************************************************************************)
(* the card and the host of a scenario, taking requests of n sectors whole *)
ScenCard(n) ==
    /\ card_sd \in BOOLEAN
    /\ card_blockaddr \in BOOLEAN
    /\ card_removed = FALSE
    /\ card_present \in BOOLEAN
    /\ host_spi \in BOOLEAN
    /\ max_blk_count = n
    /\ removal_work = 0
    /\ claimer = "none"
    /\ claim_cnt = 0
    /\ other_pc = "idle"

InitB ==
    /\ InitRq({ ScenBSectors * SectorSize })
    /\ rq_dir = READ
    /\ ScenCard(ScenBSectors)
    /\ InitLocals("start", {0})
    /\ NoSg
    /\ NoDelay
    /\ NoIssue
    /\ NoExt

ScenBBadSector == StartSector + ScenBBad

(* the plan just executed covers the bad sector before any reinit *)
ScenBHits(b) ==
    /\ reinits = 0
    /\ rq_pos <= ScenBBadSector
    /\ ScenBBadSector < rq_pos + b.blocks

(* mmc_wait_for_req on that card: a data error after the good blocks before *)
(* the bad sector, or all blocks without error                              *)
ExecuteB ==
    /\ Execute
    /\ ~brq'.cmd_error
    /\ ~brq'.stop_error
    /\ brq'.data_error = ScenBHits(brq')
    /\ brq'.bytes_xfered = IF ScenBHits(brq')
                           THEN (ScenBBadSector - rq_pos) * SectorSize
                           ELSE brq'.blocks * SectorSize

(* mmc_reinit_card succeeds *)
RecoveryB ==
    /\ Recovery
    /\ err' = 0

NextB ==
    \/ ClaimHost
    \/ ExecuteB
    \/ RecoveryB
    \/ Ladder
    \/ Exit

(* the worker that runs mmc_blk_issue_rq keeps running *)
SpecB == InitB /\ [][NextB]_vars /\ WF_vars(NextB)

(***************************************************************************)
(* Scenario C: a write of ScenCSectors sectors, taken in one plan, on a    *)
(* card that is not an SD card and whose stop command fails every time,    *)
(* the data having been transferred; the status poll and mmc_reinit_card   *)
(* answer in any way; no other context uses the host.                      *)
(***************************************************************************)
InitC ==
    /\ InitRq({ ScenCSectors * SectorSize })
    /\ rq_dir = WRITE
    /\ ScenCard(ScenCSectors)
    /\ ~card_sd
    /\ ~host_spi
    /\ InitLocals("start", {0})
    /\ NoSg
    /\ NoDelay
    /\ NoIssue
    /\ NoExt

(* mmc_wait_for_req on that card: brq.stop.error alone *)
ExecuteC ==
    /\ Execute
    /\ brq'.stop_error
    /\ ~brq'.cmd_error
    /\ ~brq'.data_error

NextC ==
    \/ ClaimHost
    \/ ExecuteC
    \/ PollStatus
    \/ PollBusyRun
    \/ Recovery
    \/ Ladder
    \/ CmdErr
    \/ FailRest

SpecC == InitC /\ [][NextC]_vars

(***************************************************************************)
(* genlock (drivers/base/genlock.c): one lock and NumHandles handles, each *)
(* used by one caller at a time.  The code between spin_lock_irqsave and   *)
(* spin_unlock_irqrestore is one step.  wait_event_interruptible_timeout   *)
(* (lock->queue, lock->state == _UNLOCKED, ticks) returns the jiffies left *)
(* (at least 1) when it finds the lock unlocked, 0 when the time is up and *)
(* -ERESTARTSYS when a signal is pending; its timeout is a long, which     *)
(* has the 32 bits of the unsigned int it is given: a word holding a       *)
(* negative value is handed back as it is when the lock is found unlocked. *)
(* The locals ticks and elapsed are unsigned int: the model keeps their    *)
(* 32-bit word as a signed number and compares it as the code does; ticks  *)
(* = elapsed (lines 297, 392) is the word kept in h_ticks.                 *)
(***************************************************************************)
Handles == 1 .. NumHandles

(* everything outside genlock *)
mmcVars == << rqVars, cfgVars, sgVars, dlVars, claimVars, isVars, card_removed,
              removal_work, other_pc, pc, ret, disable_multi, card_no_ready, err,
              try_recovery, do_reinit, do_remove, brq, poll_i, expired, retval,
              log, xlog, reinits, bad_cmd, fatal_from, no_ready_seen >>
glFrame == << mmcVars, pcm, dp, blk >>

(* no request is handed to the block driver *)
NoMmc ==
    /\ InitRq({ SectorSize })
    /\ rq_dir = READ
    /\ ScenCard(1)
    /\ ~card_sd /\ ~card_blockaddr /\ card_present /\ ~host_spi
    /\ InitLocals("idle", {0})
    /\ NoSg
    /\ NoDelay
    /\ NoIssue

(* genlock_create_lock, lines 68-101: the lock as the first handle gets it *)
InitGenlock ==
    /\ NoMmc
    /\ NoProcComm
    /\ NoLinkTrain
    /\ NoSlots
    /\ gl_state = "UNLOCKED"
    /\ gl_active = << >>
    /\ h_attached = [h \in Handles |-> h = 1]
    /\ h_active = [h \in Handles |-> 0]
    /\ h_pc = [h \in Handles |-> "idle"]
    /\ h_op = [h \in Handles |-> "none"]
    /\ h_ticks = [h \in Handles |-> 0]
    /\ gl_last = [fn |-> "none", ret |-> 0]

(* msecs_to_jiffies *)
MsecsToJiffies(ms) == (ms + MsPerJiffy - 1) \div MsPerJiffy

(* the timeouts callers pass, in milliseconds *)
Timeouts == { k * MsPerJiffy : k \in 0 .. MaxTicks }

(* comparisons of an unsigned int word *)
UnsignedLeZero(w) == w = 0
UnsignedLtZero(w) == FALSE

(* handle_has_lock, lines 151-161 *)
handle_has_lock(h) == \E i \in 1 .. Len(gl_active) : gl_active[i] = h

(* list_del(&handle->entry) *)
ListDel(l, h) ==
    LET first == CHOOSE i \in 1 .. Len(l) : l[i] = h /\ \A j \in 1 .. i - 1 : l[j] # h
    IN  [k \in 1 .. Len(l) - 1 |-> IF k < first THEN l[k] ELSE l[k + 1]]

(* variant: the state is left as it is when the last holder goes *)
genlock_signal_keep(l, st) == st

(* _genlock_signal, lines 165-173: the state it leaves for the list l *)
genlock_signal(l, st) == IF l = << >> THEN "UNLOCKED" ELSE st

(* the call fn of handle h returns r *)
Returns(h, fn, r) ==
    /\ gl_last' = [fn |-> fn, ret |-> r]
    /\ h_pc' = [h_pc EXCEPT ![h] = "idle"]
    /\ h_op' = [h_op EXCEPT ![h] = "none"]
    /\ h_ticks' = [h_ticks EXCEPT ![h] = 0]

(* variant: the new owner's count is left as it was *)
dolock_nocount(h, op) ==
    /\ gl_active' = Append(gl_active, h)
    /\ gl_state' = op
    /\ h_active' = h_active

(* dolock, lines 300-305 *)
dolock(h, op) ==
    /\ gl_active' = Append(gl_active, h)
    /\ gl_state' = op
    /\ h_active' = [h_active EXCEPT ![h] = 1]

(* lines 269-270 *)
CanShare(op, st) == op = "RDLOCK" /\ st = "RDLOCK"

(* _genlock_lock up to its first spin_unlock, lines 208-285 and 300-309 *)
genlock_do_lock(h, op, noblock, timeout) ==
    IF gl_state = "UNLOCKED"
    THEN /\ dolock(h, op)
         /\ Returns(h, "lock", 0)
    ELSE IF handle_has_lock(h)
    THEN IF gl_state = op
         THEN /\ h_active[h] < MaxActive
              /\ h_active' = [h_active EXCEPT ![h] = h_active[h] + 1]
              /\ Returns(h, "lock", 0)
              /\ UNCHANGED << gl_state, gl_active >>
         ELSE IF op = "RDLOCK" /\ h_active[h] = 1
         THEN /\ gl_state' = "RDLOCK"
              /\ Returns(h, "lock", 0)
              /\ UNCHANGED << gl_active, h_active >>
         ELSE /\ Returns(h, "lock", EINVAL)
              /\ UNCHANGED << gl_state, gl_active, h_active >>
    ELSE IF CanShare(op, gl_state)
    THEN /\ dolock(h, op)
         /\ Returns(h, "lock", 0)
    ELSE IF noblock \/ timeout = 0
    THEN /\ Returns(h, "lock", EAGAIN)
         /\ UNCHANGED << gl_state, gl_active, h_active >>
    ELSE /\ h_pc' = [h_pc EXCEPT ![h] = "lock_wait"]
         /\ h_op' = [h_op EXCEPT ![h] = op]
         /\ h_ticks' = [h_ticks EXCEPT ![h] = MsecsToJiffies(timeout)]
         /\ UNCHANGED << gl_state, gl_active, h_active, gl_last >>

(* variant: the handle gives the lock up at its first unlock *)
genlock_unlock_first(h) ==
    IF gl_state = "UNLOCKED" \/ ~handle_has_lock(h)
    THEN /\ Returns(h, "unlock", EINVAL)
         /\ UNCHANGED << gl_state, gl_active, h_active >>
    ELSE /\ h_active' = [h_active EXCEPT ![h] = h_active[h] - 1]
         /\ gl_active' = ListDel(gl_active, h)
         /\ gl_state' = genlock_signal(ListDel(gl_active, h), gl_state)
         /\ Returns(h, "unlock", 0)

(* variant: the count is decremented before the owner test *)
genlock_unlock_dec(h) ==
    IF gl_state = "UNLOCKED" \/ ~handle_has_lock(h)
    THEN /\ Returns(h, "unlock", EINVAL)
         /\ h_active' = [h_active EXCEPT ![h] = h_active[h] - 1]
         /\ UNCHANGED << gl_state, gl_active >>
    ELSE /\ h_active' = [h_active EXCEPT ![h] = h_active[h] - 1]
         /\ IF h_active[h] - 1 = 0
            THEN /\ gl_active' = ListDel(gl_active, h)
                 /\ gl_state' = genlock_signal(ListDel(gl_active, h), gl_state)
            ELSE UNCHANGED << gl_state, gl_active >>
         /\ Returns(h, "unlock", 0)

(* _genlock_unlock, lines 177-204 *)
genlock_unlock(h) ==
    IF gl_state = "UNLOCKED" \/ ~handle_has_lock(h)
    THEN /\ Returns(h, "unlock", EINVAL)
         /\ UNCHANGED << gl_state, gl_active, h_active >>
    ELSE /\ h_active' = [h_active EXCEPT ![h] = h_active[h] - 1]
         /\ IF h_active[h] - 1 = 0
            THEN /\ gl_active' = ListDel(gl_active, h)
                 /\ gl_state' = genlock_signal(ListDel(gl_active, h), gl_state)
            ELSE UNCHANGED << gl_state, gl_active >>
         /\ Returns(h, "unlock", 0)

(* the arguments of genlock_lock: flags and timeout are read only for a    *)
(* lock operation, the timeout only without GENLOCK_NOBLOCK                *)
LockCalls ==
    { [op |-> o, noblock |-> FALSE, timeout |-> 0] : o \in {"UNLOCK", "other"} }
    \cup { [op |-> o, noblock |-> TRUE, timeout |-> 0] : o \in {"RDLOCK", "WRLOCK"} }
    \cup { [op |-> o, noblock |-> FALSE, timeout |-> t] :
             o \in {"RDLOCK", "WRLOCK"}, t \in Timeouts }

(* ---- genlock_lock, lines 323-346 ---- *)
genlock_lock(h) ==
    /\ h_pc[h] = "idle"
    /\ \E c \in LockCalls :
         IF ~h_attached[h] \/ c.op = "other"
         THEN /\ Returns(h, "lock", EINVAL)
              /\ UNCHANGED << gl_state, gl_active, h_active >>
         ELSE IF c.op = "UNLOCK"
         THEN genlock_unlock(h)
         ELSE genlock_do_lock(h, c.op, c.noblock, c.timeout)
    /\ UNCHANGED << glFrame, h_attached >>

(* ---- wait_event_interruptible_timeout returns in _genlock_lock (line    *)
(* 287) or in genlock_wait (line 382)                                       *)
wait_event_returns(h) ==
    /\ h_pc[h] \in {"lock_wait", "wait_wait"}
    /\ \E e \in (IF gl_state # "UNLOCKED" THEN {}
                 ELSE IF h_ticks[h] > 0 THEN 1 .. h_ticks[h] ELSE {h_ticks[h]})
                \cup {0, ERESTARTSYS} :
         h_ticks' = [h_ticks EXCEPT ![h] = e]
    /\ h_pc' = [h_pc EXCEPT ![h] = IF h_pc[h] = "lock_wait" THEN "lock_woken"
                                                              ELSE "wait_woken"]
    /\ UNCHANGED << glFrame, gl_state, gl_active, h_attached, h_active, h_op, gl_last >>

(* ---- _genlock_lock from the spin_lock after the wait, lines 290-309 ---- *)
genlock_lock_resume(h) ==
    /\ h_pc[h] = "lock_woken"
    /\ IF UnsignedLeZero(h_ticks[h])
       THEN /\ Returns(h, "lock", IF UnsignedLtZero(h_ticks[h])
                                  THEN h_ticks[h] ELSE ETIMEDOUT)
            /\ UNCHANGED << gl_state, gl_active, h_active >>
       ELSE IF gl_state # "UNLOCKED"
       THEN /\ h_pc' = [h_pc EXCEPT ![h] = "lock_wait"]
            /\ UNCHANGED << gl_state, gl_active, h_active, h_op, h_ticks, gl_last >>
       ELSE /\ dolock(h, h_op[h])
            /\ Returns(h, "lock", 0)
    /\ UNCHANGED << glFrame, h_attached >>

(* ---- genlock_wait up to its first spin_unlock, lines 355-380, 395-397 ---- *)
genlock_wait(h) ==
    /\ h_pc[h] = "idle"
    /\ \E timeout \in Timeouts :
         IF ~h_attached[h]
         THEN Returns(h, "wait", EINVAL)
         ELSE IF timeout = 0
         THEN Returns(h, "wait", IF gl_state = "UNLOCKED" THEN 0 ELSE EAGAIN)
         ELSE IF gl_state = "UNLOCKED"
         THEN Returns(h, "wait", 0)
         ELSE /\ h_pc' = [h_pc EXCEPT ![h] = "wait_wait"]
              /\ h_ticks' = [h_ticks EXCEPT ![h] = MsecsToJiffies(timeout)]
              /\ UNCHANGED << h_op, gl_last >>
    /\ UNCHANGED << glFrame, gl_state, gl_active, h_attached, h_active >>

(* ---- genlock_wait from the spin_lock after the wait, lines 385-397 ---- *)
genlock_wait_resume(h) ==
    /\ h_pc[h] = "wait_woken"
    /\ IF UnsignedLeZero(h_ticks[h])
       THEN Returns(h, "wait", IF UnsignedLtZero(h_ticks[h])
                               THEN h_ticks[h] ELSE ETIMEDOUT)
       ELSE IF gl_state # "UNLOCKED"
       THEN /\ h_pc' = [h_pc EXCEPT ![h] = "wait_wait"]
            /\ UNCHANGED << h_op, h_ticks, gl_last >>
       ELSE Returns(h, "wait", 0)
    /\ UNCHANGED << glFrame, gl_state, gl_active, h_attached, h_active >>

(* ---- genlock_release_lock, lines 405-425 ---- *)
genlock_release_lock(h) ==
    /\ h_pc[h] = "idle"
    /\ IF ~h_attached[h]
       THEN UNCHANGED << gl_state, gl_active, h_attached, h_active >>
       ELSE /\ IF handle_has_lock(h)
               THEN /\ gl_active' = ListDel(gl_active, h)
                    /\ gl_state' = genlock_signal(ListDel(gl_active, h), gl_state)
               ELSE UNCHANGED << gl_state, gl_active >>
            /\ h_attached' = [h_attached EXCEPT ![h] = FALSE]
            /\ h_active' = [h_active EXCEPT ![h] = 0]
    /\ Returns(h, "release", 0)
    /\ UNCHANGED glFrame

(* ---- genlock_attach_lock, lines 132-146 ---- *)
genlock_attach_lock(h) ==
    /\ h_pc[h] = "idle"
    /\ IF h_attached[h]
       THEN /\ Returns(h, "attach", EINVAL)
            /\ UNCHANGED h_attached
       ELSE /\ h_attached' = [h_attached EXCEPT ![h] = TRUE]
            /\ Returns(h, "attach", 0)
    /\ UNCHANGED << glFrame, gl_state, gl_active, h_active >>

NextGenlock ==
    \E h \in Handles :
        \/ genlock_attach_lock(h)
        \/ genlock_lock(h)
        \/ wait_event_returns(h)
        \/ genlock_lock_resume(h)
        \/ genlock_wait(h)
        \/ genlock_wait_resume(h)
        \/ genlock_release_lock(h)

SpecGenlock == InitGenlock /\ [][NextGenlock]_vars

(***************************************************************************)
(* msm_proc_comm (arch/arm/mach-msm/proc_comm.c): one call, followed poll  *)
(* by poll, and the modem as its environment.  The modem sets MDM_STATUS,  *)
(* serves a notified command (status, both data words, then PCOM_CMD_DONE  *)
(* in APP_COMMAND) and may crash at any time; msm_check_for_modem_crash    *)
(* reports a crash once.  pcm_timeout is the local timeout of              *)
(* proc_comm_wait_for, set anew by every call of it.                       *)
(***************************************************************************)
pcmFrame == << mmcVars, glVars, dp, blk >>

PcomWords == 0 .. PcomData

InitProcComm ==
    /\ NoMmc
    /\ NoGenlock
    /\ NoLinkTrain
    /\ NoSlots
    /\ \E m \in {PCOM_INVALID_STATUS, PCOM_READY},
          a \in [cmd : {PcomCmd}, p1 : BOOLEAN, p2 : BOOLEAN,
                 in1 : PcomWords, in2 : {PcomData},
                 hook : BOOLEAN, reset_hook : BOOLEAN, timeout_reset : BOOLEAN] :
         /\ a.reset_hook => a.timeout_reset
         /\ pcm = [PcomCall EXCEPT !.shm.mdm_status = m, !.arg = a,
                                   !.data = << a.in1, a.in2 >>]

(* ---- spin_lock_irqsave(&proc_comm_lock, flags), line 112 ---- *)
msm_proc_comm_enter ==
    /\ pcm.pc = "call"
    /\ ~pcm.lock
    /\ pcm' = [pcm EXCEPT !.lock = TRUE, !.pc = "wait_ready", !.timeout = PcomTimeout]
    /\ UNCHANGED pcmFrame

(* variant: a reported crash leaves the caller at the wait it was in *)
AfterCrashStay(at) == at

(* where msm_proc_comm goes on when proc_comm_wait_for returns -EAGAIN:    *)
(* continue, lines 115-116 and 127-128                                     *)
AfterCrash(at) == "wait_ready"

(* ---- one pass of the loop of proc_comm_wait_for, lines 78-103, for the  *)
(* wait of line 115 or the wait of line 127                           ---- *)
proc_comm_wait_for ==
    /\ pcm.pc \in {"wait_ready", "wait_done"}
    /\ LET at_ready == pcm.pc = "wait_ready"
           word == IF at_ready THEN pcm.shm.mdm_status ELSE pcm.shm.app_command
           value == IF at_ready THEN PCOM_READY ELSE PCOM_CMD_DONE
       IN  pcm' =
             IF word = value
             THEN [pcm EXCEPT !.pc = IF at_ready THEN "write" ELSE "finish",
                              !.timeout = PcomTimeout]
             ELSE IF pcm.arg.hook /\ pcm.modem.crashed
             THEN [pcm EXCEPT !.pc = AfterCrash(pcm.pc),
                              !.timeout = PcomTimeout,
                              !.modem.crashed = FALSE,
                              !.hist.restarted = TRUE]
             ELSE IF ~pcm.arg.timeout_reset
             THEN pcm
             ELSE IF pcm.timeout # 0
             THEN [pcm EXCEPT !.timeout = pcm.timeout - 1]
             ELSE [pcm EXCEPT !.pc = IF pcm.arg.reset_hook THEN "reset" ELSE pcm.pc,
                              !.timeout = PcomTimeout]
    /\ UNCHANGED pcmFrame

(* ---- lines 118-125: the command, both data words, the notification ---- *)
msm_proc_comm_write ==
    /\ pcm.pc = "write"
    /\ LET w1 == IF pcm.arg.p1 THEN pcm.data[1] ELSE 0
           w2 == IF pcm.arg.p2 THEN pcm.data[2] ELSE 0
       IN  pcm' = [pcm EXCEPT !.shm.app_command = pcm.arg.cmd,
                              !.shm.app_data1 = w1,
                              !.shm.app_data2 = w2,
                              !.hist.last_cmd = pcm.arg.cmd,
                              !.hist.sent = << pcm.arg.cmd, w1, w2 >>,
                              !.modem.notified = TRUE,
                              !.pc = "wait_done"]
    /\ UNCHANGED pcmFrame

(* ---- lines 130-148: the status, the data words, PCOM_CMD_IDLE, the      *)
(* unlock and the return                                              ---- *)
msm_proc_comm_finish ==
    /\ pcm.pc = "finish"
    /\ LET ok == pcm.shm.app_status # PCOM_CMD_FAIL
       IN  pcm' = [pcm EXCEPT
                     !.data = IF ok
                              THEN << IF pcm.arg.p1 THEN pcm.shm.app_data1 ELSE pcm.data[1],
                                      IF pcm.arg.p2 THEN pcm.shm.app_data2 ELSE pcm.data[2] >>
                              ELSE pcm.data,
                     !.ret = IF ok THEN 0 ELSE EIO,
                     !.shm.app_command = PCOM_CMD_IDLE,
                     !.hist.last_cmd = PCOM_CMD_IDLE,
                     !.lock = FALSE,
                     !.pc = "returned"]
    /\ UNCHANGED pcmFrame

(* ---- the modem: MDM_STATUS changes, a notified command is served, or    *)
(* the modem crashes                                                  ---- *)
Modem ==
    /\ pcm.pc \notin {"returned", "reset"}
    /\ \/ \E m \in {PCOM_INVALID_STATUS, PCOM_READY} :
             /\ m # pcm.shm.mdm_status
             /\ pcm' = [pcm EXCEPT !.shm.mdm_status = m]
       \/ /\ pcm.modem.notified
          /\ \E st \in {PCOM_CMD_SUCCESS, PCOM_CMD_FAIL}, w1 \in PcomWords :
                pcm' = [pcm EXCEPT !.shm.app_status = st, !.shm.app_data1 = w1,
                                   !.shm.app_data2 = 0,
                                   !.shm.app_command = PCOM_CMD_DONE,
                                   !.modem.notified = FALSE]
       \/ /\ ~pcm.modem.crashed
          /\ pcm' = [pcm EXCEPT !.shm.mdm_status = PCOM_INVALID_STATUS,
                                !.modem = [crashed |-> TRUE, notified |-> FALSE]]
    /\ UNCHANGED pcmFrame

(* the steps of the processor that runs msm_proc_comm *)
NextApps ==
    \/ msm_proc_comm_enter
    \/ proc_comm_wait_for
    \/ msm_proc_comm_write
    \/ msm_proc_comm_finish

NextProcComm == NextApps \/ Modem

SpecProcComm == InitProcComm /\ [][NextProcComm]_vars

(* the processor goes on executing msm_proc_comm (it spins with interrupts *)
(* off); nothing is assumed of the modem                                   *)
SpecProcCommLive == SpecProcComm /\ WF_vars(NextApps)

(***************************************************************************)
(* intel_dp_link_train (drivers/gpu/drm/i915/intel_dp.c, lines 1065-1199), *)
(* one pass of a loop per step.  The sink is the environment: an aux       *)
(* transfer succeeds or fails, and a link status that was read reports     *)
(* clock recovery or channel equalization done or not and requests a       *)
(* voltage swing and a pre-emphasis (the largest over the lanes).          *)
(* intel_get_adjust_train gives the four bytes of train_set one value, and *)
(* lane_count is 1, 2 or 4, so the lanes' bytes are followed as one.       *)
(***************************************************************************)
dpFrame == << mmcVars, glVars, pcm, blk >>

DpLevels == 0 .. DpLevelMax

(* lines 1082-1094: the state at the first pass of the clock recovery *)
InitLinkTrain ==
    /\ NoMmc
    /\ NoGenlock
    /\ NoProcComm
    /\ NoSlots
    /\ \E r \in {"off", "idle"} :
         dp = [DpStart EXCEPT !.output_reg = r]

(* intel_dp_pre_emphasis_max, lines 884-898 *)
intel_dp_pre_emphasis_max(voltage_swing) ==
    CASE voltage_swing = 0 -> DP_TRAIN_PRE_EMPHASIS_6
      [] voltage_swing = 1 -> DP_TRAIN_PRE_EMPHASIS_6
      [] voltage_swing = DP_TRAIN_VOLTAGE_SWING_800 -> DP_TRAIN_PRE_EMPHASIS_3_5
      [] OTHER -> DP_TRAIN_PRE_EMPHASIS_0

(* intel_get_adjust_train, lines 900-928, for the largest requests v and p *)
intel_get_adjust_train(v, p) ==
    LET max_swing == v >= DP_TRAIN_VOLTAGE_SWING_800
        vs == IF max_swing THEN DP_TRAIN_VOLTAGE_SWING_800 ELSE v
        max_pe == p >= intel_dp_pre_emphasis_max(vs)
    IN  [vs |-> vs, max_swing |-> max_swing,
         pe |-> IF max_pe THEN intel_dp_pre_emphasis_max(vs) ELSE p,
         max_pe |-> max_pe]

(* ---- one pass of the clock recovery loop, lines 1095-1144; a break      *)
(* goes on to lines 1147-1148                                         ---- *)
ClockRecoveryPass ==
    /\ dp.pc = "clock_recovery"
    /\ \E aux_ok \in BOOLEAN, status_ok \in BOOLEAN, cr_ok \in BOOLEAN,
          v \in DpLevels, p \in DpLevels :
         LET vs == dp.train_set.vs
             sent == [dp EXCEPT
                        !.output_reg = "pat1",
                        !.sink_pattern = "pat1",
                        !.hist.run_vs = vs,
                        !.hist.run_n = IF dp.hist.run_n > 0 /\ dp.hist.run_vs = vs
                                       THEN dp.hist.run_n + 1 ELSE 1]
             got == [sent EXCEPT !.first = FALSE]
             break(d) == [d EXCEPT !.pc = "channel_eq", !.tries = 0,
                                   !.channel_eq = FALSE]
         IN  dp' =
               IF ~aux_ok THEN break(sent)
               ELSE IF ~status_ok THEN break(got)
               ELSE IF cr_ok THEN break([got EXCEPT !.clock_recovery = TRUE])
               ELSE IF dp.train_set.max_swing THEN break(got)
               ELSE IF vs = dp.voltage /\ dp.tries + 1 = SameVoltageTries THEN break(got)
               ELSE [got EXCEPT !.tries = IF vs = dp.voltage THEN dp.tries + 1 ELSE 0,
                                !.voltage = vs,
                                !.train_set = intel_get_adjust_train(v, p)]
    /\ UNCHANGED dpFrame

(* ---- one pass of the channel equalization loop, lines 1149-1188 ---- *)
ChannelEqPass ==
    /\ dp.pc = "channel_eq"
    /\ \E aux_ok \in BOOLEAN, status_ok \in BOOLEAN, eq_ok \in BOOLEAN,
          v \in DpLevels, p \in DpLevels :
         LET sent == [dp EXCEPT !.output_reg = "pat2", !.sink_pattern = "pat2",
                                !.hist.pat2 = dp.hist.pat2 + 1]
         IN  dp' =
               IF ~aux_ok \/ ~status_ok THEN [sent EXCEPT !.pc = "off"]
               ELSE IF eq_ok THEN [sent EXCEPT !.pc = "off", !.channel_eq = TRUE]
               ELSE IF dp.tries > ChannelEqTries THEN [sent EXCEPT !.pc = "off"]
               ELSE [sent EXCEPT !.train_set = intel_get_adjust_train(v, p),
                                 !.tries = dp.tries + 1]
    /\ UNCHANGED dpFrame

(* ---- lines 1190-1198: link training off, DP_TRAINING_PATTERN_DISABLE ---- *)
LinkTrainOff ==
    /\ dp.pc = "off"
    /\ dp' = [dp EXCEPT !.output_reg = "off", !.sink_pattern = "disable", !.pc = "done"]
    /\ UNCHANGED dpFrame

NextLinkTrain == ClockRecoveryPass \/ ChannelEqPass \/ LinkTrainOff

SpecLinkTrain == InitLinkTrain /\ [][NextLinkTrain]_vars

(***************************************************************************)
(* The device slots of the block driver (drivers/mmc/card/block.c):        *)
(* mmc_blk_alloc, mmc_blk_get, mmc_blk_put, mmc_blk_open, mmc_blk_release  *)
(* and mmc_blk_remove.  The disk of slot d exists while its mmc_blk_data   *)
(* does; the block layer opens a disk and releases an open of it; the bus  *)
(* removes a card that is bound.                                           *)
(***************************************************************************)
slotsFrame == << mmcVars, glVars, pcm, dp >>

Slots == 0 .. NumMinors - 1

NoMd == [live |-> FALSE, usage |-> 0, read_only |-> FALSE, first_minor |-> 0,
         bound |-> FALSE, opens |-> 0]

InitSlots ==
    /\ NoMmc
    /\ NoGenlock
    /\ NoProcComm
    /\ NoLinkTrain
    /\ blk = [dev_use |-> {}, md |-> [d \in Slots |-> NoMd],
              last |-> [fn |-> "none", ret |-> 0, slot |-> -1]]

(* find_first_zero_bit(dev_use, MMC_NUM_MINORS) *)
find_first_zero_bit(use) ==
    IF Slots \ use = {} THEN NumMinors
    ELSE CHOOSE d \in Slots \ use : \A e \in Slots \ use : d <= e

(* md->disk->first_minor >> MMC_SHIFT, line 97 *)
DevIdx(m) == m.first_minor \div (2 ^ MMC_SHIFT)

(* mmc_blk_get, lines 77-90, for the disk of slot d: the slots after it    *)
(* and the slot of the structure it returns (-1 for NULL)                  *)
mmc_blk_get(b, d) ==
    IF b.md[d].live /\ b.md[d].usage # 0
    THEN [b |-> [b EXCEPT !.md[d].usage = @ + 1], md |-> d]
    ELSE [b |-> b, md |-> -1]

(* mmc_blk_put, lines 92-107, for the structure of slot d *)
mmc_blk_put(b, d) ==
    IF b.md[d].usage - 1 = 0
    THEN [b EXCEPT !.dev_use = @ \ { DevIdx(b.md[d]) }, !.md[d] = NoMd]
    ELSE [b EXCEPT !.md[d].usage = @ - 1]

(* the places where mmc_blk_alloc can fail after line 743 *)
AllocFailures == {"none", "kzalloc", "alloc_disk", "mmc_init_queue"}

(* ---- mmc_blk_alloc, lines 735-820 ---- *)
mmc_blk_alloc ==
    /\ \E fail \in AllocFailures, ro \in BOOLEAN :
         LET devidx == find_first_zero_bit(blk.dev_use)
         IN  IF devidx >= NumMinors
             THEN blk' = [blk EXCEPT !.last = [fn |-> "alloc", ret |-> ENOSPC,
                                                slot |-> -1]]
             ELSE IF fail # "none"
             THEN blk' = [blk EXCEPT !.dev_use = @ \cup {devidx},
                                     !.last = [fn |-> "alloc", ret |-> ENOMEM,
                                               slot |-> devidx]]
             ELSE blk' = [blk EXCEPT !.dev_use = @ \cup {devidx},
                                     !.md[devidx] =
                                         [live |-> TRUE, usage |-> 1,
                                          read_only |-> ro,
                                          first_minor |-> devidx * (2 ^ MMC_SHIFT),
                                          bound |-> TRUE, opens |-> 0],
                                     !.last = [fn |-> "alloc", ret |-> 0,
                                               slot |-> devidx]]
    /\ UNCHANGED slotsFrame

(* ---- mmc_blk_open, lines 109-126, of the disk of slot d ---- *)
mmc_blk_open(d) ==
    /\ blk.md[d].live
    /\ blk.md[d].opens < MaxOpens
    /\ \E write \in BOOLEAN :
         LET g == mmc_blk_get(blk, d)
         IN  IF g.md = -1
             THEN blk' = [g.b EXCEPT !.last = [fn |-> "open", ret |-> ENXIO,
                                               slot |-> d]]
             ELSE IF write /\ g.b.md[d].read_only
             THEN blk' = [mmc_blk_put(g.b, d) EXCEPT
                             !.last = [fn |-> "open", ret |-> EROFS, slot |-> d]]
             ELSE blk' = [g.b EXCEPT !.md[d].opens = @ + 1,
                                     !.last = [fn |-> "open", ret |-> 0,
                                               slot |-> d]]
    /\ UNCHANGED slotsFrame

(* ---- mmc_blk_release, lines 128-134, of an open of the disk of slot d ---- *)
mmc_blk_release(d) ==
    /\ blk.md[d].live
    /\ blk.md[d].opens > 0
    /\ blk' = [mmc_blk_put([blk EXCEPT !.md[d].opens = @ - 1], d) EXCEPT
                  !.last = [fn |-> "release", ret |-> 0, slot |-> d]]
    /\ UNCHANGED slotsFrame

(* ---- mmc_blk_remove, lines 904-922, of the card bound to slot d ---- *)
mmc_blk_remove(d) ==
    /\ blk.md[d].live
    /\ blk.md[d].bound
    /\ blk' = [mmc_blk_put([blk EXCEPT !.md[d].bound = FALSE], d) EXCEPT
                  !.last = [fn |-> "remove", ret |-> 0, slot |-> d]]
    /\ UNCHANGED slotsFrame

NextSlots ==
    \/ mmc_blk_alloc
    \/ \E d \in Slots :
          \/ mmc_blk_open(d)
          \/ mmc_blk_release(d)
          \/ mmc_blk_remove(d)

SpecSlots == InitSlots /\ [][NextSlots]_vars

(***************************************************************************)
(* Properties                                                              *)
(***************************************************************************)
RECURSIVE SumNr(_)
SumNr(s) == IF s = << >> THEN 0 ELSE Head(s).nr + SumNr(Tail(s))

RqSectors0 == rq_bytes0 \div SectorSize

RqEnd0 == rq_pos0 + RqSectors0

(* bytes transferred according to the outcome a success call reports on:    *)
(* the card's written-block count on the SD fatal path, bytes_xfered of the *)
(* last execution otherwise                                                 *)
Transferred(e) == IF e.path = "prefix_sd" THEN e.nr ELSE e.xfer

(* C1: the byte counts passed to __blk_end_request over all completion      *)
(* calls of a request sum to at most the request's byte length, and the     *)
(* bytes a status-0 call completes never exceed the bytes transferred       *)
(* according to the outcome it reports on.                                  *)
C1_AccountingConservation ==
    /\ SumNr(log) <= rq_bytes0
    /\ \A i \in 1 .. Len(log) :
         log[i].error = 0 => log[i].done <= Transferred(log[i])

(* C2: successive completion calls cover non-decreasing, non-overlapping    *)
(* byte ranges: every call starts where the previous one ended (the first   *)
(* at the start of the request), is made while bytes are left, stays inside *)
(* the request, and a call that reports on an executed plan starts at the   *)
(* sector that plan started at.                                             *)
C2_MonotonicCompletion ==
    \A i \in 1 .. Len(log) :
        /\ log[i].start =
             (IF i = 1 THEN rq_pos0
              ELSE log[i - 1].start + (log[i - 1].done \div SectorSize))
        /\ log[i].start < RqEnd0
        /\ log[i].start + (log[i].done \div SectorSize) <= RqEnd0
        /\ log[i].path \in {"ok", "rd_eio", "prefix"} => log[i].plan = log[i].start

C2_Witness ==
    \E i \in 1 .. Len(log) : \E j \in 1 .. Len(log) :
        /\ i < j
        /\ log[i].error = 0 /\ log[i].done > 0
        /\ log[j].error = EIO /\ log[j].done > 0

(* C3: the do-while loop of one request executes at most 2N plans for a     *)
(* request of N sectors, whatever the outcomes of commands, polls and       *)
(* reinits (N plans that complete a sector, at most N-1 failed multi-block  *)
(* reads, at most one plan retried after a reinit): no cycle of retries     *)
(* without progress.  In the status poll, once the wall clock has passed    *)
(* the deadline no poll beyond poll PollMinCount continues the loop.        *)
C3_BoundedIterations ==
    /\ Len(xlog) <= 2 * RqSectors0
    /\ (pc = "poll" /\ expired) => poll_i <= PollMinCount

C3_Witness ==
    /\ pc = "done"
    /\ RqSectors0 >= 2
    /\ Len(xlog) = 2 * RqSectors0
    /\ reinits = 1

(* C4: every transport command of the request (read/write, card status,     *)
(* status poll, reinit, block-size reassertion, written-block query) is     *)
(* issued while the request's context holds the host claim, and never while *)
(* another context executes a command on the host.                          *)
C4_CommandsUnderClaim ==
    /\ ~bad_cmd
    /\ pc \in {"exec", "poll", "recovery", "cmd_err"} => claimer = "rq" /\ claim_cnt >= 1
    /\ other_pc # "idle" => claimer = "other"

C4_Witness ==
    /\ pc = "poll"
    /\ reinits = 1
    /\ reclaims = 1
    /\ poll_i >= PollMinCount
    /\ ~bad_cmd

(* C5: claims and releases of the host are balanced over one request: the   *)
(* host is released exactly once on every exit path, it stays claimed until *)
(* then, and the request never claims the host while it already holds it.   *)
C5_ClaimBalanced ==
    /\ reclaims = 0
    /\ pc \in {"exec", "poll", "recovery", "exit", "cmd_err"} =>
           claimer = "rq" /\ nclaims = 1 /\ nreleases = 0
    /\ pc \in {"fail_rest", "done"} =>
           claimer # "rq" /\ nclaims = 1 /\ nreleases = 1

IsMultiReadFail(x) == x.dir = READ /\ x.blocks > 1 /\ x.failed

(* C6 (as stated): after a multi-block read in which sector k fails, the    *)
(* next plan is a single-block read that starts at sector k, and no sector  *)
(* before k is read again.                                                  *)
C6_RetryAtFailedSector ==
    \A i \in 1 .. Len(xlog) :
        (IsMultiReadFail(xlog[i]) /\ xlog[i].fail_sector # -1) =>
            /\ i < Len(xlog) =>
                 /\ xlog[i + 1].sector = xlog[i].fail_sector
                 /\ xlog[i + 1].blocks = 1
            /\ \A j \in (i + 1) .. Len(xlog) : xlog[j].sector >= xlog[i].fail_sector

(* C6 (amended): after a failed multi-block read the next plan is a         *)
(* single-block read that starts at the first sector of the failed plan     *)
(* (sectors of that plan before k are read again), and no sector before the *)
(* start of the failed plan is read again.                                  *)
C6_RetryAtPlanStart ==
    \A i \in 1 .. Len(xlog) :
        IsMultiReadFail(xlog[i]) =>
            /\ i < Len(xlog) =>
                 /\ xlog[i + 1].sector = xlog[i].sector
                 /\ xlog[i + 1].blocks = 1
                 /\ xlog[i + 1].opcode = "READ_SINGLE_BLOCK"
            /\ \A j \in (i + 1) .. Len(xlog) : xlog[j].sector >= xlog[i].sector

C6_Witness ==
    \E i \in 1 .. Len(xlog) :
        /\ IsMultiReadFail(xlog[i])
        /\ xlog[i].fail_sector > xlog[i].sector
        /\ i < Len(xlog)
        /\ xlog[i + 1].sector = xlog[i].sector
        /\ xlog[i + 1].sector < xlog[i].fail_sector
        /\ ~xlog[i + 1].failed

(* C7: a failed multi-block read does not advance the ladder (try_recovery  *)
(* unchanged, no reinit, no removal), makes no completion call, and is      *)
(* followed by a single-block read of the same start sector; a read request *)
(* gets an -EIO completion only after a single-block read failed.           *)
C7_MultiReadFailNoEscalation ==
    /\ \A i \in 1 .. Len(xlog) :
         IsMultiReadFail(xlog[i]) =>
            IF i < Len(xlog)
            THEN /\ xlog[i + 1].try = xlog[i].try
                 /\ xlog[i + 1].nlog = xlog[i].nlog
                 /\ xlog[i + 1].reinits = xlog[i].reinits
                 /\ xlog[i + 1].removals = xlog[i].removals
                 /\ xlog[i + 1].sector = xlog[i].sector
                 /\ xlog[i + 1].blocks = 1
                 /\ xlog[i + 1].opcode = "READ_SINGLE_BLOCK"
            ELSE /\ pc = "exec"
                 /\ try_recovery = xlog[i].try
                 /\ Len(log) = xlog[i].nlog
                 /\ reinits = xlog[i].reinits
                 /\ removal_work = xlog[i].removals
                 /\ do_reinit = 0 /\ do_remove = 0
                 /\ disable_multi = 1
    /\ \A k \in 1 .. Len(log) :
         (rq_dir = READ /\ log[k].error = EIO) => (log[k].blocks = 1 /\ log[k].failed)

C7_Witness ==
    /\ \E i \in 1 .. Len(xlog) :
         /\ IsMultiReadFail(xlog[i])
         /\ i < Len(xlog)
         /\ xlog[i + 1].failed
    /\ \E k \in 1 .. Len(log) : log[k].error = EIO

(* the ladder decision of line 659 is taken for a command, data or stop     *)
(* error of the executed plan                                               *)
LadderFailure ==
    /\ pc = "recovery"
    /\ do_reinit = 0 /\ do_remove = 0
    /\ AnyError(brq)
    /\ try_recovery' # try_recovery

RungExhausted == (try_recovery = 2 /\ ~card_sd) \/ try_recovery >= 3

(* C8 (as stated): at the ladder, try_recovery = 1 schedules a reinit,      *)
(* try_recovery = 2 schedules removal on an SD card, and otherwise the      *)
(* request takes the fatal path, for reads and writes alike.                *)
C8_LadderByRung ==
    [][LadderFailure =>
        /\ try_recovery = 1 => (do_reinit' = 1 /\ pc' = "recovery")
        /\ (try_recovery = 2 /\ card_sd) => (do_remove' = 1 /\ pc' = "recovery")
        /\ RungExhausted => pc' = "cmd_err"]_vars

(* C8 (amended): at the ladder, try_recovery = 1 schedules a reinit,        *)
(* try_recovery = 2 schedules removal on an SD card; otherwise a write      *)
(* request takes the fatal path, while a read request has the one sector of *)
(* the failed plan completed with -EIO and goes on with the next sector.    *)
C8_LadderByRungAndDirection ==
    [][LadderFailure =>
        /\ try_recovery = 1 =>
             (do_reinit' = 1 /\ do_remove' = 0 /\ pc' = "recovery" /\ log' = log)
        /\ (try_recovery = 2 /\ card_sd) =>
             (do_remove' = 1 /\ do_reinit' = 0 /\ pc' = "recovery" /\ log' = log)
        /\ RungExhausted =>
             /\ do_reinit' = 0 /\ do_remove' = 0
             /\ rq_dir = WRITE => (pc' = "cmd_err" /\ log' = log)
             /\ rq_dir = READ =>
                  /\ pc' \in {"exec", "exit"}
                  /\ Len(log') = Len(log) + 1
                  /\ log'[Len(log')].error = EIO
                  /\ log'[Len(log')].nr = SectorSize
                  /\ rq_pos' = rq_pos + 1]_vars

C8_Witness ==
    /\ pc = "exec"
    /\ rq_dir = READ
    /\ try_recovery >= 3
    /\ Len(log) > 0
    /\ log[Len(log)].path = "rd_eio"

(* C9: within one loop iteration try_recovery increases by at most one, and *)
(* by exactly one when the iteration's plan failed (other than a multi-     *)
(* block read) and the loop goes on.                                        *)
C9_OneRungPerFailedCycle ==
    Len(xlog) > 0 =>
        /\ try_recovery - xlog[Len(xlog)].try <= 1
        /\ (pc = "exec" /\ xlog[Len(xlog)].failed /\ ~IsMultiReadFail(xlog[Len(xlog)])) =>
               try_recovery - xlog[Len(xlog)].try = 1

(* C10 (as stated): every -EIO completion call of a request is preceded by  *)
(* a reinitialization attempt of that request.                              *)
C10_EioOnlyAfterReinit ==
    \A k \in 1 .. Len(log) : log[k].error = EIO => log[k].reinits >= 1

(* C10 (amended): every -EIO completion call of a request is preceded by a  *)
(* reinitialization attempt of that request, or follows a reinit that was   *)
(* scheduled by the ladder and skipped because the card is marked removed,  *)
(* or follows a failed status-poll command, which leads directly to the     *)
(* fatal path.                                                              *)
C10_EioAfterReinitOrDirectFatal ==
    \A k \in 1 .. Len(log) :
        log[k].error = EIO =>
            \/ log[k].reinits >= 1
            \/ (fatal_from = "removed" /\ log[k].path = "rest" /\ try_recovery >= 2
                  /\ card_removed)
            \/ (fatal_from = "poll_err" /\ log[k].path = "rest" /\ rq_dir = WRITE)

C10_Witness ==
    \E k \in 1 .. Len(log) :
        /\ log[k].error = EIO
        /\ log[k].reinits >= 1
        /\ try_recovery >= 3

(* the Reinitialize action calls mmc_reinit_card, lines 640-641 *)
ReinitRuns ==
    /\ pc = "recovery"
    /\ do_reinit # 0
    /\ ~card_removed
    /\ reinits' = reinits + 1

(* C11: when the Reinitialize action runs and mmc_reinit_card succeeds, the *)
(* block size is set again and the loop goes on at the same sector with no  *)
(* completion call; when it fails, removal is scheduled for an SD card and  *)
(* the fatal path is taken, and the request then ends with at least one     *)
(* -EIO completion call.                                                    *)
C11_ReinitOutcome ==
    /\ [][ReinitRuns =>
           IF err' = 0
           THEN /\ pc' = "exec"
                /\ log' = log
                /\ rq_pos' = rq_pos
                /\ nclaims' = nclaims + SetBlksizeClaims(card_blockaddr)
           ELSE /\ pc' = "cmd_err"
                /\ (card_sd /\ card_present) =>
                     (card_removed' /\ removal_work' = removal_work + 1)]_vars
    /\ [](\A i \in 2 .. Len(xlog) :
            xlog[i].reinits > xlog[i - 1].reinits =>
                /\ xlog[i].sector = xlog[i - 1].sector
                /\ xlog[i].nlog = xlog[i - 1].nlog)
    /\ []((pc = "done" /\ fatal_from = "reinit_failed") =>
            \E k \in 1 .. Len(log) : log[k].error = EIO)

(* the request was submitted against a card already marked removed (by an  *)
(* earlier request): no remove_card of this request has acted               *)
RemovedAtSubmit == card_removed /\ removal_work = 0

(* C12: when the Remove action has marked the card removed, the in-flight   *)
(* request ends with at least one -EIO completion call; a request submitted *)
(* against a card already marked removed has no read/write command executed *)
(* and every completion call of it carries an error.                        *)
C12_RemovedFailFast ==
    /\ (pc = "done" /\ fatal_from = "remove" /\ removal_work >= 1) =>
           \E k \in 1 .. Len(log) : log[k].error = EIO
    /\ RemovedAtSubmit =>
           /\ Len(xlog) = 0
           /\ \A k \in 1 .. Len(log) : log[k].error # 0

(* C13: a request of zero sectors has no plan executed and no status poll   *)
(* made (no transport command), and it ends with an error completion.       *)
C13_ZeroSectorsRejected ==
    rq_bytes0 = 0 =>
        /\ Len(xlog) = 0
        /\ pc # "poll"
        /\ pc = "done" => \E k \in 1 .. Len(log) : log[k].error # 0

(* the request has left mmc_blk_issue_rq through cmd_err *)
FatalDone == pc = "done" /\ fatal_from # "none"

(* C14: a request that took the fatal path ends fully completed, its        *)
(* status-0 calls complete no more than the bytes transferred by the plan   *)
(* they report on (the card's own count within that plan for an SD write),  *)
(* and at least one of its completion calls carries -EIO.                   *)
C14_FatalPathVisible ==
    FatalDone =>
        /\ rq_bytes = 0
        /\ retval = 0
        /\ \A k \in 1 .. Len(log) :
             log[k].error = 0 =>
                 IF log[k].path = "prefix_sd"
                 THEN rq_dir = WRITE /\ log[k].done <= log[k].blocks * SectorSize
                 ELSE log[k].done <= log[k].xfer
        /\ \E k \in 1 .. Len(log) : log[k].error = EIO

(* completion calls made at cmd_err: the success prefix, the failed rest *)
IsPrefixCall(e) == e.path \in {"prefix", "prefix_sd"}

IsRestCall(e) == e.path = "rest"

(* C15 (as stated): on the fatal path at most one success call is made for  *)
(* the prefix, and what is left of the request is then reported as -EIO in  *)
(* exactly one call, the last one.                                          *)
C15_OneFinalEioCall ==
    FatalDone =>
        /\ Cardinality({ k \in 1 .. Len(log) : IsPrefixCall(log[k]) }) <= 1
        /\ Cardinality({ k \in 1 .. Len(log) : IsRestCall(log[k]) }) = 1
        /\ IsRestCall(log[Len(log)])
        /\ log[Len(log)].error = EIO

(* C15 (amended): on the fatal path at most one success call is made for    *)
(* the prefix; it is followed only by -EIO calls, one per current segment   *)
(* of what is left (several for a request of several segments, none when    *)
(* the prefix covers the rest), each completing at least one sector inside  *)
(* the request, and after them the request is fully completed.              *)
C15_PrefixThenEioPerSegment ==
    FatalDone =>
        /\ Cardinality({ k \in 1 .. Len(log) : IsPrefixCall(log[k]) }) <= 1
        /\ \A k \in 1 .. Len(log) :
             /\ IsPrefixCall(log[k]) =>
                  /\ log[k].error = 0
                  /\ \A j \in 1 .. Len(log) : j > k => IsRestCall(log[j])
             /\ IsRestCall(log[k]) =>
                  /\ log[k].error = EIO
                  /\ log[k].done = log[k].nr
                  /\ log[k].done >= SectorSize
                  /\ \A j \in 1 .. Len(log) : j > k => IsRestCall(log[j])
        /\ rq_bytes = 0

C15_Witness ==
    /\ FatalDone
    /\ \E k \in 1 .. Len(log) :
         /\ IsPrefixCall(log[k])
         /\ log[k].done >= SectorSize
         /\ k + 2 = Len(log)
         /\ IsRestCall(log[k + 1])
         /\ IsRestCall(log[k + 2])

(* C16: the card's written-block count is the success byte count of the    *)
(* fatal path only for a write request on an SD card; for a read request    *)
(* and for every request on a non-SD card the success prefix passed at      *)
(* cmd_err is bytes_xfered of the last executed plan.                       *)
C16_CounterOnlyForSdWrites ==
    \A k \in 1 .. Len(log) :
        /\ log[k].path = "prefix_sd" => (card_sd /\ rq_dir = WRITE)
        /\ (IsPrefixCall(log[k]) /\ (rq_dir = READ \/ ~card_sd)) =>
               (log[k].path = "prefix" /\ log[k].nr = log[k].xfer)

(* one pass of the loop builds and executes a plan *)
PlanBuilt == pc = "exec" /\ Len(xlog') = Len(xlog) + 1

(* C17: every plan built in the loop has block_count = min(sectors left of  *)
(* the request, host max_blk_count), reduced to 1 in single-block mode; its *)
(* opcode is the multi-block read/write iff block_count > 1, else the       *)
(* single-block one; a stop command is attached iff block_count > 1 and     *)
(* (the host is not SPI or the request reads).                              *)
C17_PlanShape ==
    [][PlanBuilt =>
        LET x == xlog'[Len(xlog')]
            cap == Min(rq_bytes \div SectorSize, max_blk_count)
        IN  /\ x.blocks = (IF disable_multi # 0 THEN Min(cap, 1) ELSE cap)
            /\ brq'.blocks = x.blocks
            /\ x.blocks > 1 =>
                 x.opcode = (IF rq_dir = READ THEN "READ_MULTIPLE_BLOCK"
                             ELSE "WRITE_MULTIPLE_BLOCK")
            /\ x.blocks <= 1 =>
                 x.opcode = (IF rq_dir = READ THEN "READ_SINGLE_BLOCK"
                             ELSE "WRITE_BLOCK")
            /\ brq'.opcode = x.opcode
            /\ x.stop <=> (x.blocks > 1 /\ (~host_spi \/ rq_dir = READ))
            /\ brq'.stop = x.stop]_vars

C17_Witness ==
    /\ host_spi
    /\ \E i \in 1 .. Len(xlog) : \E j \in 1 .. Len(xlog) :
         /\ xlog[i].blocks > 1
         /\ xlog[i].blocks = max_blk_count
         /\ xlog[i].blocks < RqEnd0 - xlog[i].sector
         /\ xlog[i].stop
         /\ xlog[j].dm = 1
         /\ xlog[j].blocks = 1
         /\ max_blk_count > 1
         /\ RqEnd0 - xlog[j].sector > 1
         /\ ~xlog[j].stop

(* total length of the first n entries of a scatter list *)
RECURSIVE SgBytes(_, _)
SgBytes(l, n) == IF n = 0 THEN 0 ELSE l[n] + SgBytes(l, n - 1)

(* the scatter list of a plan smaller than the request has been adjusted *)
SgAdjusted == pc = "sg_done" /\ brq.blocks # blk_rq_sectors

(* C18: when the planned block count differs from the request's sector      *)
(* count, after the adjustment the first sg_len entries are together        *)
(* exactly block_count * 512 bytes long, sg_len is at least 1 and at most   *)
(* the number of mapped entries, and every retained entry is longer than 0. *)
C18_SgFitsPlan ==
    SgAdjusted =>
        /\ sg_len >= 1
        /\ sg_len <= Len(sg)
        /\ SgBytes(sg, sg_len) = brq.blocks * SectorSize
        /\ \A k \in 1 .. sg_len : sg[k] > 0

C18_Witness ==
    /\ SgAdjusted
    /\ sg_len >= 2
    /\ sg_len < Len(sg)
    /\ SgBytes(sg, Len(sg)) < rq_bytes
    /\ sg[sg_len] = SectorSize

(* a status poll is answered and the timeout test of line 588 holds *)
TimeoutStep == pc = "poll" /\ pc' = "recovery" /\ poll_i' = poll_i

(* C19 (as stated): at the timeout (deadline passed, at least 1024 polls    *)
(* done) a status READY_FOR_DATA in state 4 is a success: the ladder is not *)
(* advanced and card_no_ready is reset; any other status is a not-ready     *)
(* failure, and the first one of a request schedules a reinit.              *)
C19_NotReadyFirstReinit ==
    [][TimeoutStep =>
        /\ expired' /\ poll_i >= PollMinCount
        /\ IF err' = 0
           THEN /\ try_recovery' = try_recovery
                /\ do_reinit' = do_reinit /\ do_remove' = do_remove
                /\ card_no_ready' = 0
           ELSE /\ card_no_ready' = card_no_ready + 1
                /\ no_ready_seen = 0 => do_reinit' = 1]_vars

(* C19 (amended): at the timeout a status READY_FOR_DATA in state 4 is a    *)
(* success: the ladder is not advanced and card_no_ready is reset; any      *)
(* other status is a not-ready failure that advances the ladder by one      *)
(* rung: it schedules a reinit only when no earlier failure of the request  *)
(* advanced the ladder (try_recovery = 1), schedules removal when           *)
(* try_recovery = 2 on an SD card, and otherwise schedules nothing.         *)
C19_NotReadyAdvancesLadder ==
    [][TimeoutStep =>
        /\ expired' /\ poll_i >= PollMinCount
        /\ IF err' = 0
           THEN /\ try_recovery' = try_recovery
                /\ do_reinit' = do_reinit /\ do_remove' = do_remove
                /\ card_no_ready' = 0
           ELSE /\ card_no_ready' = card_no_ready + 1
                /\ try_recovery' = try_recovery + 1
                /\ do_reinit' = (IF try_recovery = 1 THEN 1 ELSE 0)
                /\ do_remove' = (IF try_recovery = 2 /\ card_sd THEN 1 ELSE 0)]_vars

C19_Witness ==
    /\ pc = "recovery"
    /\ err = 1
    /\ no_ready_seen = 1
    /\ card_no_ready = 1
    /\ reinits = 1
    /\ try_recovery = 3
    /\ do_reinit = 0 /\ do_remove = 0

(* C20 (as stated): on every card type the delay slept before a status     *)
(* poll never decreases from one poll to the next and is not zero from poll *)
(* count SleepFrom on.                                                      *)
C20_DelayGrowsEveryCard ==
    /\ [][slept' >= slept]_vars
    /\ []((pc = "dl_cmd" /\ poll_i >= SleepFrom) => slept > 0)

(* C20 (amended): on an SD card the delay slept before a status poll never  *)
(* decreases from one poll to the next, is zero before poll count SleepFrom *)
(* and at least one millisecond from then on; on any other card type no     *)
(* delay is slept at any poll count.                                        *)
C20_DelayGrowsOnSdOnly ==
    /\ [][slept' >= slept]_vars
    /\ [](pc = "dl_cmd" =>
            IF card_sd /\ poll_i >= SleepFrom
            THEN slept >= 1 /\ slept = msec
            ELSE slept = 0 /\ msec = 0 /\ elapsed = 0)

C20_Witness ==
    /\ pc = "dl_cmd"
    /\ card_sd
    /\ poll_i > SleepFrom
    /\ slept >= 1
    /\ elapsed > DeadlineMs

(* the ladder decision of plan i has been taken and the loop has gone on *)
PlanProcessed(i) == i < Len(xlog) \/ pc \in {"exec", "exit", "done"}

(* completion calls made by the time the plan after plan i is built *)
NlogAfter(i) == IF i < Len(xlog) THEN xlog[i + 1].nlog ELSE Len(log)

ExhaustedAt(x) == (x.try = 2 /\ ~card_sd) \/ x.try >= 3

(* C21: in single-block mode every successful single-block plan is followed *)
(* by exactly one completion call, of one sector with status 0; a single-   *)
(* block read that fails with the ladder exhausted is followed by exactly   *)
(* one completion call, of one sector with -EIO, after which the loop goes  *)
(* on with the next sector of the request (and ends only when none is left).*)
C21_OneSectorPerSinglePlan ==
    \A i \in 1 .. Len(xlog) :
        LET x == xlog[i]
        IN  /\ (x.dm = 1 /\ x.blocks = 1 /\ ~x.failed /\ PlanProcessed(i)) =>
                 /\ NlogAfter(i) = x.nlog + 1
                 /\ log[x.nlog + 1].error = 0
                 /\ log[x.nlog + 1].nr = SectorSize
                 /\ log[x.nlog + 1].done = SectorSize
                 /\ log[x.nlog + 1].start = x.sector
            /\ (x.dir = READ /\ x.blocks = 1 /\ x.failed /\ ExhaustedAt(x)
                  /\ PlanProcessed(i)) =>
                 /\ NlogAfter(i) = x.nlog + 1
                 /\ log[x.nlog + 1].error = EIO
                 /\ log[x.nlog + 1].nr = SectorSize
                 /\ log[x.nlog + 1].start = x.sector
                 /\ i < Len(xlog) => xlog[i + 1].sector = x.sector + 1
                 /\ (i = Len(xlog) /\ pc \in {"exit", "done"}) => rq_bytes = 0
                 /\ (i = Len(xlog) /\ pc = "exec") => rq_pos = x.sector + 1

C21_Witness ==
    \E i \in 1 .. Len(xlog) : \E j \in 1 .. Len(xlog) :
        /\ xlog[i].dm = 1 /\ xlog[i].blocks = 1 /\ ~xlog[i].failed
        /\ i < j /\ j < Len(xlog)
        /\ xlog[j].blocks = 1 /\ xlog[j].failed /\ ExhaustedAt(xlog[j])
        /\ xlog[j + 1].sector = xlog[j].sector + 1

(* C22: md->lock is held only between a spin_lock_irq and the              *)
(* spin_unlock_irq after the completion call(s) of its site: it is not held *)
(* while a transport command, a status poll, a sleep, a reinit, a removal   *)
(* or a claim is in progress, nor when mmc_blk_issue_rq has returned.       *)
C22_LockOnlyAroundCompletion ==
    /\ md_lock => pc \in {"is_end", "is_unlock"}
    /\ pc \in {"is_resume_bus", "is_remove", "is_blksz", "is_poll", "is_sleep",
               "start", "exec", "poll", "recovery", "cmd_err", "is_release",
               "exit", "done"} => ~md_lock

C22_Witness ==
    /\ md_lock
    /\ pc = "is_end"
    /\ site = "rest"
    /\ ret # 0
    /\ reinits > 0

(* C23 as stated: whenever a read/write command is about to be issued, the  *)
(* block-length command has been issued since the last bus resume.          *)
C23_BlksizeBeforeRw ==
    pc = "exec" => ~blksz_due

(* C23 amended: the same for byte-addressed cards; for a block-addressed    *)
(* card mmc_blk_set_blksize is called but issues no command.                *)
C23_BlksizeBeforeRwByteAddressed ==
    /\ (pc = "exec" /\ ~card_blockaddr) => ~blksz_due
    /\ (pc = "exec" /\ card_blockaddr /\ bus_manual_resume) => blksz_due

C23_Witness ==
    /\ pc = "exec"
    /\ Len(xlog) = 0
    /\ ~card_blockaddr
    /\ bus_manual_resume
    /\ ~bus_needs_resume
    /\ ~blksz_due

(* C24: remove_card is called only while the request's context holds the    *)
(* host claim.                                                              *)
C24_RemoveUnderClaim ==
    (pc = "is_remove" \/ (pc = "recovery" /\ (do_remove # 0 \/ do_reinit # 0)))
        => claimer = "rq"

ScenBSingle(e, sector) ==
    e.start = sector /\ e.nr = SectorSize /\ e.done = SectorSize /\ e.error = 0

ScenBInv ==
    /\ pc \notin {"cmd_err", "fail_rest"}
    /\ reinits <= 1
    /\ Len(xlog) >= 1 => xlog[1].blocks = ScenBSectors /\ xlog[1].failed
    /\ \A i \in 1 .. Len(xlog) - 1 :
          /\ (xlog[i].failed /\ xlog[i].blocks > 1) =>
                /\ xlog[i + 1].blocks = 1
                /\ xlog[i + 1].dm = 1
                /\ xlog[i + 1].sector = xlog[i].sector
          /\ (~xlog[i].failed /\ xlog[i].blocks = 1) =>
                /\ xlog[i + 1].blocks = RqEnd0 - xlog[i + 1].sector
                /\ xlog[i + 1].sector = xlog[i].sector + 1
    /\ \A k \in 1 .. Len(log) :
          /\ log[k].error = 0
          /\ k <= ScenBBad + 1 => ScenBSingle(log[k], StartSector + k - 1)
          /\ k = ScenBBad + 2 =>
                /\ log[k].start = ScenBBadSector + 1
                /\ log[k].done = (ScenBSectors - ScenBBad - 1) * SectorSize
    /\ pc = "done" =>
          /\ reinits = 1 /\ retval = 1 /\ rq_bytes = 0
          /\ Len(log) = ScenBBad + 2
          /\ Len(xlog) = 2 * ScenBBad + 4
          /\ SumNr(log) = ScenBSectors * SectorSize

RECURSIVE SumEio(_)
SumEio(s) ==
    IF s = << >> THEN 0
    ELSE (IF Head(s).error = EIO THEN Head(s).done ELSE 0) + SumEio(Tail(s))

(* C26: in scenario C the request is given up only after the ladder has     *)
(* been climbed, reinit first; it ends with -EIO reported for all its       *)
(* sectors; the byte count of the success call made at termination is       *)
(* bytes_xfered of the last execution.                                      *)
C26_ScenarioCFatalAll ==
    /\ \A k \in 1 .. Len(log) :
          log[k].error = 0 => log[k].path = "prefix" /\ log[k].nr = log[k].xfer
    /\ (pc = "done" /\ fatal_from = "ladder") => reinits = 1
    /\ pc = "done" =>
          /\ retval = 0
          /\ SumEio(log) = ScenCSectors * SectorSize

(* C27: the lock is unlocked, write-locked or read-locked; while it is      *)
(* write-locked exactly one handle is on the active list, and several       *)
(* handles are on the list only while it is read-locked.                    *)
C27_LockStates ==
    /\ gl_state \in {"UNLOCKED", "WRLOCK", "RDLOCK"}
    /\ gl_state = "WRLOCK" => Len(gl_active) = 1
    /\ Len(gl_active) > 1 => gl_state = "RDLOCK"

C27_Witness ==
    /\ gl_state = "RDLOCK"
    /\ Len(gl_active) = 2
    /\ gl_active[1] # gl_active[2]
    /\ \E h \in Handles : h_active[h] = 2
    /\ gl_last.fn = "lock" /\ gl_last.ret = 0


(***************************************************************************)
(* C28: whatever the modem does, msm_proc_comm returns after a bounded     *)
(* number of wait and retry passes and releases proc_comm_lock: the call   *)
(* eventually returns with the lock free.                                  *)
(***************************************************************************)
C28_ProcCommReturns == <>(pcm.pc = "returned" /\ ~pcm.lock)

(* the words msm_proc_comm hands to the modem: cmd, *data1 or 0, *data2 or 0 *)
PcomRequest == << pcm.arg.cmd, IF pcm.arg.p1 THEN pcm.arg.in1 ELSE 0,
                  IF pcm.arg.p2 THEN pcm.arg.in2 ELSE 0 >>

C29_Returned ==
    pcm.pc = "returned" =>
        /\ pcm.hist.last_cmd = PCOM_CMD_IDLE
        /\ pcm.shm.app_command = PCOM_CMD_IDLE
        /\ ~pcm.lock
        /\ pcm.ret = (IF pcm.shm.app_status # PCOM_CMD_FAIL THEN 0 ELSE EIO)
        /\ pcm.ret = EIO => pcm.data = << pcm.arg.in1, pcm.arg.in2 >>
        /\ pcm.ret = 0 =>
              pcm.data = << IF pcm.arg.p1 THEN pcm.shm.app_data1 ELSE pcm.arg.in1,
                            IF pcm.arg.p2 THEN pcm.shm.app_data2 ELSE pcm.arg.in2 >>

C29_Step ==
    /\ (pcm.modem.crashed /\ ~pcm'.modem.crashed) =>
            /\ pcm.pc \in {"wait_ready", "wait_done"}
            /\ pcm'.pc = "wait_ready"
            /\ pcm'.lock
    /\ (pcm.pc # "write" /\ pcm'.pc = "write") =>
            pcm.pc = "wait_ready" /\ pcm.shm.mdm_status = PCOM_READY
    /\ (~pcm.modem.notified /\ pcm'.modem.notified) =>
            /\ pcm.pc = "write"
            /\ << pcm'.shm.app_command, pcm'.shm.app_data1, pcm'.shm.app_data2 >>
                   = PcomRequest
            /\ pcm'.hist.sent = PcomRequest
    /\ (pcm.pc # "wait_done" /\ pcm'.pc = "wait_done") => pcm'.modem.notified

(***************************************************************************)
(* C29: a modem crash reported during the wait for PCOM_READY or the wait  *)
(* for PCOM_CMD_DONE restarts the operation: the call is back at the wait  *)
(* for PCOM_READY and writes the command and both data words again before  *)
(* it notifies.  On every return the last write to APP_COMMAND is          *)
(* PCOM_CMD_IDLE, the lock is free, and *data1 and *data2 have been        *)
(* overwritten only if the status was not PCOM_CMD_FAIL (return 0); they   *)
(* are as on entry when -EIO is returned.                                  *)
(***************************************************************************)
C29_CrashRestarts == []C29_Returned /\ [][C29_Step]_vars

C29_Witness ==
    /\ pcm.pc = "returned"
    /\ pcm.hist.restarted
    /\ pcm.ret = 0
    /\ pcm.data # << pcm.arg.in1, pcm.arg.in2 >>

(***************************************************************************)
(* C30: the clock recovery gives up once one voltage swing has been tried  *)
(* 5 times without clock recovery: training pattern 1 is never written     *)
(* more than 5 times in a row with the same voltage swing.                 *)
(***************************************************************************)
C30_SameVoltageAtMostFive == dp.hist.run_n <= SameVoltageTries


(***************************************************************************)
(* C31: the channel equalization is tried 5 times: training pattern 2 is   *)
(* written at most 5 times before the phase gives up, and in every case    *)
(* the function ends with link training off in the port register and       *)
(* DP_TRAINING_PATTERN_DISABLE at the sink.                                *)
(***************************************************************************)
C31_ChannelEqAtMostFive ==
    /\ dp.hist.pat2 <= ChannelEqTries
    /\ dp.pc = "done" => dp.output_reg = "off" /\ dp.sink_pattern = "disable"


(* handle h is on the owner list l *)
OnList(l, h) == \E i \in 1 .. Len(l) : l[i] = h

C32_Step ==
    \A h \in Handles :
        /\ (h_active[h] >= 1 /\ h_active'[h] > h_active[h]) =>
              /\ h_active'[h] = h_active[h] + 1
              /\ OnList(gl_active, h)
              /\ gl_active' = gl_active
              /\ gl_state' = gl_state
        /\ (h_active'[h] < h_active[h] /\ h_attached'[h]) =>
              /\ h_active'[h] = h_active[h] - 1
              /\ h_active'[h] >= 1 => (gl_active' = gl_active /\ gl_state' = gl_state)
        /\ (OnList(gl_active, h) /\ ~OnList(gl_active', h) /\ h_attached'[h]) =>
              /\ h_active[h] = 1 /\ h_active'[h] = 0
              /\ gl_active' = ListDel(gl_active, h)
              /\ gl_state' = (IF gl_active' = << >> THEN "UNLOCKED" ELSE gl_state)

(***************************************************************************)
(* C32: a handle that holds the lock and locks it again with the same type *)
(* only has its recursion count incremented (no second list entry, state   *)
(* unchanged); an unlock takes the handle off the owner list (and sets the *)
(* lock unlocked if the list became empty) only when it brings the count   *)
(* to 0, that is when the handle has unlocked as often as it locked.       *)
(***************************************************************************)
C32_RecursionCount == [][C32_Step]_vars

C32_Witness ==
    /\ gl_state = "WRLOCK"
    /\ gl_last = [fn |-> "unlock", ret |-> 0]
    /\ Len(gl_active) = 1
    /\ h_active[gl_active[1]] = 1


C33_Step ==
    \A h \in Handles :
        (/\ h_pc[h] = "lock_woken" /\ h_op[h] = "RDLOCK"
         /\ gl_state = "RDLOCK"
         /\ h_pc'[h] # "lock_woken") =>
            /\ OnList(gl_active', h)
            /\ gl_state' = "RDLOCK"
            /\ h_pc'[h] = "idle"
            /\ gl_last' = [fn |-> "lock", ret |-> 0]

(***************************************************************************)
(* C33: when the sole holder of a write lock converts it to a read lock,   *)
(* the waiters that requested a read lock are woken and acquire the shared *)
(* read lock while the converting handle still holds it: a read waiter     *)
(* that goes on after its wait and finds the lock read-locked gets the     *)
(* lock (it does not wait for the lock to become unlocked, nor time out).  *)
(***************************************************************************)
C33_ReadWaitersShare == [][C33_Step]_vars


C34_Step ==
    /\ (gl_last'.fn \in {"lock", "unlock"} /\ gl_last'.ret \in {EINVAL, EAGAIN}) =>
          /\ gl_state' = gl_state
          /\ gl_active' = gl_active
          /\ h_active' = h_active
    /\ \A h \in Handles :
          (h_pc[h] \in {"lock_wait", "lock_woken"} /\ h_pc'[h] = "idle") =>
              gl_last'.ret \notin {EINVAL, EAGAIN}

(***************************************************************************)
(* C34: a rejected lock or unlock leaves the lock as it was.  Whenever     *)
(* genlock_lock returns -EINVAL (a read holder asking for the write lock,  *)
(* an unlock by a handle that holds nothing or of an unlocked lock) or     *)
(* -EAGAIN (the lock is not available and the caller gave NOBLOCK or a     *)
(* timeout of 0), the state, the owner list and every recursion count are  *)
(* the same after the call as before it; and a call that has waited never  *)
(* returns either code.                                                    *)
(***************************************************************************)
C34_RejectedUnchanged == [][C34_Step]_vars

C34_Witness ==
    /\ gl_last = [fn |-> "unlock", ret |-> EINVAL]
    /\ gl_state = "WRLOCK"
    /\ Len(gl_active) = 1
    /\ h_active[gl_active[1]] = 2


C35_Step ==
    \A h \in Handles :
        /\ (h_pc[h] \in {"lock_woken", "wait_woken"} /\ h_pc'[h] # h_pc[h]) =>
              /\ h_ticks[h] < 0 =>
                    /\ h_pc'[h] = "idle"
                    /\ gl_last'.ret = h_ticks[h]
                    /\ gl_active' = gl_active
              /\ h_ticks[h] = 0 =>
                    /\ h_pc'[h] = "idle"
                    /\ gl_last'.ret = ETIMEDOUT
        /\ (h_pc[h] \in {"lock_wait", "wait_wait"} /\ h_pc'[h] # h_pc[h]) =>
              h_ticks'[h] <= h_ticks[h]

(***************************************************************************)
(* C35: when the wait of _genlock_lock or genlock_wait is interrupted by a *)
(* signal (the wait primitive returns a negative value) the function       *)
(* returns that negative code and the handle does not acquire the lock;    *)
(* when the wait times out (it returns 0) the function returns -ETIMEDOUT; *)
(* and the ticks left never grow from one wait to the next, so the total   *)
(* time waited stays within the requested timeout.                         *)
(***************************************************************************)
C35_SignalAndTimeout == [][C35_Step]_vars


C36_Inv ==
    /\ (gl_state = "UNLOCKED") <=> (gl_active = << >>)
    /\ \A i, j \in 1 .. Len(gl_active) : gl_active[i] = gl_active[j] => i = j
    /\ \A h \in Handles : OnList(gl_active, h) <=> h_active[h] >= 1

C36_Step ==
    \A h \in Handles :
        (h_attached[h] /\ ~h_attached'[h]) =>
            /\ ~OnList(gl_active', h)
            /\ h_active'[h] = 0
            /\ gl_active' = (IF OnList(gl_active, h) THEN ListDel(gl_active, h)
                                                      ELSE gl_active)
            /\ \A g \in Handles \ {h} : h_active'[g] = h_active[g]

(***************************************************************************)
(* C36: over any sequence of lock, unlock and release_lock calls the lock  *)
(* state is UNLOCKED exactly when the active list is empty, every handle   *)
(* is on the active list at most once, and a handle is on the list exactly *)
(* when its recursion count is at least 1; genlock_release_lock takes the  *)
(* handle off the list whatever its count is and sets the count to 0.      *)
(***************************************************************************)
C36_Structure == []C36_Inv /\ [][C36_Step]_vars

C36_Witness ==
    /\ gl_last = [fn |-> "release", ret |-> 0]
    /\ gl_state = "RDLOCK"
    /\ Len(gl_active) = 1
    /\ h_active[gl_active[1]] = 2
    /\ \E h \in Handles : ~h_attached[h] /\ h_active[h] = 0


C37_Step ==
    /\ try_recovery' >= try_recovery
    /\ reinits' # reinits =>
          /\ reinits = 0 /\ reinits' = 1
          /\ ~card_removed
    /\ (pc = "recovery" /\ do_reinit # 0 /\ card_removed) =>
          /\ pc' = "cmd_err"
          /\ reinits' = reinits
    /\ (do_remove = 0 /\ do_remove' # 0) => try_recovery = 2
    /\ (do_remove # 0 /\ do_remove' = 0) =>
          /\ fatal_from # "remove"
          /\ fatal_from' = "remove"
          /\ pc' = "cmd_err"

(***************************************************************************)
(* C37: within one invocation of mmc_blk_issue_rq try_recovery never       *)
(* decreases; mmc_reinit_card is called at most once, and never for a card *)
(* marked removed (the request then goes to cmd_err instead); the removal  *)
(* rung (do_remove) is scheduled only at try_recovery = 2 and fires at     *)
(* most once: it leads to cmd_err and is not scheduled again afterwards.   *)
(***************************************************************************)
C37_LadderOnce ==
    /\ [](reinits <= 1 /\ (fatal_from = "remove" => do_remove = 0))
    /\ [][C37_Step]_vars

C37_Witness ==
    /\ pc = "done"
    /\ reinits = 1
    /\ fatal_from = "remove"
    /\ try_recovery = 3
    /\ removal_work = 1


(* the sectors of the request from sector s on *)
SectorsFrom(s) == (rq_bytes0 \div SectorSize) - (s - rq_pos0)

(* disable_multi after the execution x *)
DisableMultiAfter(x) ==
    IF x.failed THEN (IF IsMultiReadFail(x) THEN 1 ELSE x.dm) ELSE 0

C38_Step ==
    /\ disable_multi' # disable_multi => xlog' # xlog
    /\ xlog' # xlog =>
          LET x == xlog'[Len(xlog')]
              n == Len(xlog)
          IN  /\ x.dm = disable_multi
              /\ disable_multi' = DisableMultiAfter(x)
              /\ (disable_multi = 0 /\ disable_multi' = 1) => IsMultiReadFail(x)
              /\ x.dm = 1 =>
                    /\ x.blocks = 1
                    /\ x.dir = READ
              /\ (n >= 1 /\ xlog[n].dm = 1 /\ ~xlog[n].failed) =>
                    /\ x.dm = 0
                    /\ x.blocks = Min(SectorsFrom(x.sector), max_blk_count)
              /\ (n >= 1 /\ x.reinits > xlog[n].reinits /\ xlog[n].dm = 1) =>
                    /\ x.dm = 1
                    /\ x.blocks = 1

RemoveCardCalled ==
    \/ pc = "is_remove"
    \/ pc = "recovery" /\ do_reinit = 0 /\ do_remove # 0
    \/ pc = "recovery" /\ do_reinit # 0 /\ ~card_removed /\ card_sd /\ err' # 0

C39_Step ==
    /\ removal_work' # removal_work =>
          /\ RemoveCardCalled
          /\ removal_work = 0 /\ removal_work' = 1
          /\ ~card_removed /\ card_present
          /\ card_removed'
    /\ card_removed' # card_removed => removal_work' # removal_work
    /\ card_present' = card_present
    /\ (RemoveCardCalled /\ (card_removed \/ ~card_present)) =>
          /\ card_removed' = card_removed
          /\ removal_work' = removal_work
    /\ (RemoveCardCalled /\ ~card_removed /\ card_present) =>
          /\ card_removed'
          /\ removal_work' = removal_work + 1

C40_Inv ==
    \A d \in Slots :
        d \in blk.dev_use <=>
            \E e \in Slots : /\ blk.md[e].live
                             /\ blk.md[e].usage >= 1
                             /\ DevIdx(blk.md[e]) = d

C40_Step ==
    blk' # blk =>
        /\ (blk'.last.fn = "alloc" /\ blk'.last.ret # 0) =>
              blk'.dev_use = blk.dev_use
        /\ (blk'.last.fn = "open" /\ blk'.last.ret = EROFS) =>
              blk'.md = blk.md
        /\ (blk'.last.fn = "open" /\ blk'.last.ret = 0) =>
              blk.md[blk'.last.slot].usage >= 1

(***************************************************************************)
(* C40: a call of mmc_blk_alloc that fails leaves the slot bitmap dev_use  *)
(* as it was before the call; over any sequence of mmc_blk_alloc,          *)
(* mmc_blk_get, mmc_blk_open and mmc_blk_put a bit of dev_use is set       *)
(* exactly when a live mmc_blk_data with usage >= 1 owns that slot; an     *)
(* open refused with -EROFS leaves usage as it was; and mmc_blk_get never  *)
(* returns a structure whose usage was 0.                                  *)
(***************************************************************************)
C40_SlotBookkeeping == []C40_Inv /\ [][C40_Step]_vars

====
